---- MODULE Spec2Model ----
(***************************************************************************)
(* Model of the dev-killer execution engine: the agent step loop           *)
(* (agents/runner.rs), the approval gate and event channel (event.rs),     *)
(* the pipeline orchestrator (pipeline.rs) and the run task                *)
(* (dev_killer.rs), together with the earlier per-agent loops              *)
(* (src/agents/*.rs).                                                      *)
(***************************************************************************)
EXTENDS Integers, Sequences, FiniteSets, TLC

(***************************************************************************)
(* Bounds of the model.                                                    *)
(***************************************************************************)
\* capacity of the event channel in the model (EVENT_CHANNEL_CAPACITY
\* entries in the program; the model keeps the channel short)
ChanCap == 2
\* largest iteration budget (PipelineStep::max_iterations) of a step
MaxIter == 2
\* largest Pipeline::max_review_iterations
MaxReview == 2

(***************************************************************************)
(* Program constants.                                                      *)
(***************************************************************************)
APPROVAL_TIMEOUT_SECS == 60
DANGEROUS_TOOLS == {"shell", "write_file", "edit_file"}

None == "none"
NoText == <<>>
\* Option<Vec<String>> of PipelineStep::allowed_tools
AllTools == [some |-> FALSE, names |-> {}]
Only(names) == [some |-> TRUE, names |-> names]
\* the empty string as a model output (a text is its lines and, to tell the
\* outputs of different executions apart, the step and execution it is from)
NoOutput == [lines |-> <<>>, tag |-> <<"", 0>>]

\* names of the tools in the registry, and the names a model may request
\* ("bogus" is not registered)
RegisteredTools == {"read_file", "shell"}
ToolNames == RegisteredTools \cup {"bogus"}

\* ToolRegistry::get
RegistryGet(name) == IF name \in RegisteredTools THEN name ELSE None

\* ToolRegistry::all filtered by the allow-list (the schemas shown to the model)
VisibleTools(allowed) ==
    IF ~allowed.some THEN RegisteredTools
    ELSE {t \in RegisteredTools : t \in allowed.names}

(***************************************************************************)
(* Pipeline steps (PipelineStep::plan / code / test / review).  The        *)
(* iteration budgets of the program (10, 20, 15, 10) are scaled to the     *)
(* model's budget b.                                                       *)
(***************************************************************************)
PlanStep(b) ==
    [name |-> "planner", allowed_tools |-> Only({"glob", "grep", "read_file"}),
     max_iterations |-> b, phase |-> "Planning", formatter |-> "planner",
     is_review |-> FALSE]
CodeStep(b) ==
    [name |-> "coder", allowed_tools |-> AllTools,
     max_iterations |-> b, phase |-> "Implementing", formatter |-> "coder",
     is_review |-> FALSE]
TestStep(b) ==
    [name |-> "tester", allowed_tools |-> Only({"shell", "glob", "grep", "read_file"}),
     max_iterations |-> b, phase |-> "Testing", formatter |-> "tester",
     is_review |-> FALSE]
ReviewStep(b) ==
    [name |-> "reviewer", allowed_tools |-> Only({"glob", "grep", "read_file"}),
     max_iterations |-> b, phase |-> "Reviewing", formatter |-> "reviewer",
     is_review |-> TRUE]

\* Pipeline::default with with_max_review_iterations(m)
DefaultPipeline(b, m) ==
    [steps |-> <<PlanStep(b), CodeStep(b), TestStep(b), ReviewStep(b)>>,
     max_review_iterations |-> m]
\* Pipeline::simple
SimplePipeline(b) ==
    [steps |-> <<CodeStep(b)>>, max_review_iterations |-> 0]
\* Pipeline::custom(vec![plan, code]) with with_max_review_iterations(m)
PlanCodePipeline(b1, b2, m) ==
    [steps |-> <<PlanStep(b1), CodeStep(b2)>>, max_review_iterations |-> m]

(***************************************************************************)
(* Texts.  A formatted string is the tuple of its literal and              *)
(* interpolated parts.                                                     *)
(***************************************************************************)
NotAvailableText(tool) == <<"Tool '", tool, "' is not available to this agent">>
DeniedByUserText(tool, reason) == <<"Tool '", tool, "' was denied by the user: ", reason>>
DeniedTimeoutText(tool) ==
    <<"Tool '", tool, "' was denied: approval timed out after ",
      ToString(APPROVAL_TIMEOUT_SECS), "s">>
\* variant: a dropped reply slot reported with the text of the timeout
NoResponseSaysTimeout(tool) == DeniedTimeoutText(tool)
DeniedNoResponseText(tool) == <<"Tool '", tool, "' was denied: approval response not received">>
UnknownToolText(tool) == <<"Error: ", "unknown tool '", tool, "'">>
ToolErrorText(tool) == <<"Error: ", "execution failed", tool>>
ToolOutputText(tool) == <<"output of ", tool>>
\* result.starts_with("Error:")
IsErrorText(t) == t[1] = "Error: "
IterationExceededText(agent, max) ==
    <<agent, " agent exceeded maximum iterations (", ToString(max), ")">>
LlmFailedText(agent) == <<agent, " agent: LLM chat failed">>

(***************************************************************************)
(* Review texts: a review is a sequence of lines, a line a sequence of     *)
(* characters drawn from a small alphabet (" " is whitespace, lower-case   *)
(* and upper-case words are single symbols).                               *)
(***************************************************************************)
ToUpper(c) ==
    CASE c = "verdict:" -> "VERDICT:"
      [] c = "approved" -> "APPROVED"
      [] c = "needs_work" -> "NEEDS_WORK"
      [] c = "Approved" -> "APPROVED"
      [] OTHER -> c
ToLower(c) ==
    CASE c = "VERDICT:" -> "verdict:"
      [] c = "APPROVED" -> "approved"
      [] c = "NEEDS_WORK" -> "needs_work"
      [] c = "Approved" -> "approved"
      [] c = "GIT PUSH" -> "git push"
      [] c = "Git Push" -> "git push"
      [] c = "RM -RF /" -> "rm -rf /"
      [] c = "CAT " -> "cat "
      [] c = "/ETC/" -> "/etc/"
      [] c = "chmod -R 777 /" -> "chmod -r 777 /"
      [] c = "chown -R" -> "chown -r"
      [] c = "rm -rf $HOME" -> "rm -rf $home"
      [] OTHER -> c

RECURSIVE TrimStart(_)
TrimStart(l) == IF l # <<>> /\ Head(l) = " " THEN TrimStart(Tail(l)) ELSE l
RECURSIVE TrimEnd(_)
TrimEnd(l) ==
    IF l # <<>> /\ l[Len(l)] = " " THEN TrimEnd(SubSeq(l, 1, Len(l) - 1)) ELSE l
Trim(l) == TrimEnd(TrimStart(l))
\* trimmed.to_uppercase()
to_uppercase(l) == [i \in 1..Len(l) |-> ToUpper(l[i])]

\* is_review_approved: the first line that is exactly a verdict marker
\* decides; otherwise the substring heuristic
RECURSIVE FirstVerdict(_)
FirstVerdict(lines) ==
    IF lines = <<>> THEN None
    ELSE LET trimmed == to_uppercase(Trim(Head(lines)))
         IN  IF trimmed = <<"VERDICT:", " ", "APPROVED">> THEN "approved"
             ELSE IF trimmed = <<"VERDICT:", " ", "NEEDS_WORK">> THEN "needs_work"
             ELSE FirstVerdict(Tail(lines))
ContainsWord(lines, w) ==
    \E i \in 1..Len(lines) : \E j \in 1..Len(lines[i]) : ToLower(lines[i][j]) = w
is_review_approved(review) ==
    LET v == FirstVerdict(review.lines)
    IN  IF v = "approved" THEN TRUE
        ELSE IF v = "needs_work" THEN FALSE
        ELSE ContainsWord(review.lines, "approved")
             /\ ~ContainsWord(review.lines, "needs_work")

\* the review outputs a model may produce
ReviewLines ==
    { <<<<"ok">>, <<"VERDICT:", " ", "APPROVED">>>>,
      <<<<"bad">>, <<" ", "verdict:", " ", "needs_work", " ">>>>,
      <<<<"looks", " ", "Approved">>>>,
      <<<<"not", " ", "approved", " ", "NEEDS_WORK">>>> }

(***************************************************************************)
(* State.                                                                  *)
(***************************************************************************)
VARIABLES
    pipeline,          \* Inner::pipeline
    approval_mode,     \* Inner::approval_mode / EventSender::approval_mode
    consumer,          \* how the holder of the RunHandle behaves
    pc,                \* where the run task is
    outcome,           \* what the run task returned
    stage,             \* which loop of execute_pipeline is executing
    idx,               \* position of that loop in pipeline.steps
    cur,               \* index of the step being executed
    review_iteration,  \* execute_pipeline's review_iteration
    context,           \* PipelineContext::step_outputs
    iteration,         \* agent_loop's iteration
    messages,          \* agent_loop's conversation
    response,          \* content of the model response being handled
    tool_calls,        \* its tool calls
    tool_results,      \* agent_loop's tool_results
    k,                 \* index of the tool call being handled
    always_approved,   \* EventSender::always_approved
    slot,              \* state of the oneshot reply channel of the request
    held,              \* the consumer holds the live reply slot
    waited,            \* seconds the run has waited for the reply
    chan,              \* the bounded event channel
    closed,            \* the receiver of the event channel was dropped
    tx_alive,          \* the run task's EventSender exists
    stepLog,           \* names of the steps executed so far, in order
    verdicts,          \* is_review_approved of each review output so far
    askedNow,          \* an approval request was sent for the current call
    llm_calls,         \* model calls made by the current agent_loop
    executed,          \* per tool result of this iteration: was execute invoked
    answeredAlways,    \* tools for which an ApproveAlways reply was delivered
    rcReceived,        \* number of RunCompleted events the consumer received
    session,           \* the SessionState of the run (id 0: the run has none)
    store,             \* the sessions table of the storage: id -> saved data
    saves,             \* the saves the run attempted: status, phase, success
    portable,          \* the exported PortableSession document
    imported,          \* the id import_session returned (0: none)
    arg,               \* the input of the function or operation under test
    ret,               \* what it returned
    stream             \* the locals of the unit under way: one streamed model
                       \* call (provider, token channel, forwarder), or the
                       \* loop of retry_with_backoff

cfgVars == <<pipeline, approval_mode, consumer>>
pipeVars == <<stage, idx, cur, review_iteration, context, stepLog, verdicts>>
loopVars == <<iteration, messages, response, tool_calls, tool_results, k,
              llm_calls, executed>>
gateVars == <<always_approved, slot, held, waited, answeredAlways, askedNow>>
chanVars == <<chan, closed, tx_alive, rcReceived>>
sessVars == <<session, store, saves, portable, imported>>
unitVars == <<arg, ret, stream>>
vars == <<cfgVars, pc, outcome, pipeVars, loopVars, gateVars, chanVars, sessVars,
          unitVars>>

ApprovalModes == {"AutoApprove", "ApproveDangerous", "ApproveAll", "Custom"}
\* the predicate of ApprovalMode::Custom used in the model: auto-approve
\* exactly the read-only tool
CustomAutoApproves(tool_name) == tool_name = "read_file"
\* "never" only awaits the completion handle; "silent" receives events and
\* never answers (it keeps or drops the reply slots); "responsive" receives
\* events and answers; "leaving" drops the handle at some point
Consumers == {"never", "silent", "responsive", "leaving"}

(***************************************************************************)
(* Events and the channel.                                                 *)
(***************************************************************************)
Ev(type, name) == [type |-> type, name |-> name, live |-> FALSE]
ApprovalEv(tool) == [type |-> "ToolApprovalRequired", name |-> tool, live |-> TRUE]

\* mpsc::Sender::try_send as used by EventSender::emit: the event is
\* dropped when the channel is full or closed
\* variant: a full channel makes room by discarding its oldest event
emitOverwrites(q, e) ==
    IF closed THEN q
    ELSE IF Len(q) >= ChanCap THEN Append(Tail(q), e)
    ELSE Append(q, e)
emit(q, e) == IF closed \/ Len(q) >= ChanCap THEN q ELSE Append(q, e)
emit2(q, e1, e2) == emit(emit(q, e1), e2)

\* the live request's reply slot is no longer awaited by the run
Expire(q) == [i \in 1..Len(q) |-> [q[i] EXCEPT !.live = FALSE]]

(***************************************************************************)
(* execute_pipeline: which step runs next.                                 *)
(***************************************************************************)
Steps == pipeline.steps
\* variant: the last review-flagged step is taken as the review step
ReviewIdxLast ==
    IF \E i \in 1..Len(Steps) : Steps[i].is_review
    THEN CHOOSE i \in 1..Len(Steps) :
            Steps[i].is_review /\ \A j \in (i + 1)..Len(Steps) : ~Steps[j].is_review
    ELSE 0
\* pipeline.steps.iter().position(|s| s.is_review), counted from 1; 0 is None
ReviewIdx ==
    IF \E i \in 1..Len(Steps) : Steps[i].is_review
    THEN CHOOSE i \in 1..Len(Steps) :
            Steps[i].is_review /\ \A j \in 1..(i - 1) : ~Steps[j].is_review
    ELSE 0
steps_before_review == IF ReviewIdx = 0 THEN Len(Steps) ELSE ReviewIdx - 1

Insert(ctx, key, v) ==
    [x \in (DOMAIN ctx) \cup {key} |-> IF x = key THEN v ELSE ctx[x]]
EmptyContext == [x \in {} |-> NoOutput]

capitalize(s) ==
    CASE s = "planner" -> "Planner"
      [] s = "coder" -> "Coder"
      [] s = "tester" -> "Tester"
      [] s = "reviewer" -> "Reviewer"
      [] s = "review_feedback" -> "Review_feedback"
      [] OTHER -> s

\* format_success_output: the original task, then one section per entry
\* of step_outputs (a HashMap: the order of the sections is unspecified)
format_success_output(ctx) ==
    [head |-> "# Task Completed", task |-> "task",
     sections |-> {<<capitalize(n), ctx[n]>> : n \in DOMAIN ctx},
     status |-> "SUCCESS"]
NeedsManualReviewOutput ==
    [head |-> "# Task Incomplete", task |-> "task",
     sections |-> {}, status |-> "NEEDS_MANUAL_REVIEW"]
PlainOutput(text) ==
    [head |-> "", task |-> "", sections |-> {<<"", text>>}, status |-> ""]

Go(st, i, ri, ctx) ==
    [next |-> "step", stage |-> st, idx |-> i, cur |-> i,
     review_iteration |-> ri, context |-> ctx,
     outcome |-> [status |-> "none", out |-> PlainOutput(NoOutput)]]
Return(status, out, ri, ctx) ==
    [next |-> "return", stage |-> "end", idx |-> 0, cur |-> 0,
     review_iteration |-> ri, context |-> ctx,
     outcome |-> [status |-> status, out |-> out]]

\* variant: the review loop written as an inclusive range
ReviewLoopInclusive(ri, ctx) ==
    IF ri <= pipeline.max_review_iterations
    THEN Go("review", ReviewIdx, ri, ctx)
    ELSE Return("ok", NeedsManualReviewOutput, ri, ctx)
\* head of `for review_iteration in 0..pipeline.max_review_iterations`
ReviewLoop(ri, ctx) ==
    IF ri < pipeline.max_review_iterations
    THEN Go("review", ReviewIdx, ri, ctx)
    ELSE Return("ok", NeedsManualReviewOutput, ri, ctx)

\* variant: without a review step the first step's output is returned
AfterPreReturnsFirst(i, ctx) ==
    IF i < steps_before_review THEN Go("pre", i + 1, 0, ctx)
    ELSE IF ReviewIdx # 0 THEN ReviewLoop(0, ctx)
    ELSE IF steps_before_review = 0
         THEN Return("panic", PlainOutput(NoOutput), 0, ctx)
         ELSE Return("ok", PlainOutput(ctx[Steps[1].name]), 0, ctx)

\* after the pre-review step i (0: before the first step)
AfterPre(i, ctx) ==
    IF i < steps_before_review THEN Go("pre", i + 1, 0, ctx)
    ELSE IF ReviewIdx # 0 THEN ReviewLoop(0, ctx)
    ELSE IF steps_before_review = 0
         THEN Return("panic", PlainOutput(NoOutput), 0, ctx)
         ELSE LET last == Steps[steps_before_review].name
              IN  Return("ok",
                         PlainOutput(IF last \in DOMAIN ctx THEN ctx[last]
                                     ELSE NoOutput), 0, ctx)

\* variant: the re-run loop without its phase test
AnyPhase(ph) == TRUE
\* `matches!(step.phase, Phase::Implementing | Phase::Testing)`
IsFixPhase(ph) == ph = "Implementing" \/ ph = "Testing"
\* the re-run loop after the pre-review step i (0: at its start)
NextRerun(i, ri, ctx) ==
    LET cand == {j \in (i + 1)..steps_before_review : IsFixPhase(Steps[j].phase)}
    IN  IF cand # {}
        THEN Go("rerun", CHOOSE j \in cand : \A j2 \in cand : j <= j2, ri, ctx)
        ELSE ReviewLoop(ri + 1, ctx)

AfterReview(ri, ctx, output) ==
    IF is_review_approved(output)
    THEN LET c2 == Insert(ctx, Steps[ReviewIdx].name, output)
         IN  Return("ok", format_success_output(c2), ri, c2)
    ELSE IF ri < pipeline.max_review_iterations - 1
         THEN NextRerun(0, ri, Insert(ctx, "review_feedback", output))
         ELSE ReviewLoop(ri + 1, ctx)

\* what execute_pipeline does when execute_step returned Ok(output)
AfterStep(output) ==
    CASE stage = "pre" -> AfterPre(idx, Insert(context, Steps[cur].name, output))
      [] stage = "review" -> AfterReview(review_iteration, context, output)
      [] stage = "rerun" ->
            NextRerun(idx, review_iteration, Insert(context, Steps[cur].name, output))

(***************************************************************************)
(* Task formatters (pure functions of the context).                        *)
(***************************************************************************)
Get(ctx, key) == IF key \in DOMAIN ctx THEN ctx[key] ELSE NoOutput
format_task(formatter, ctx) ==
    CASE formatter = "planner" -> <<"Create an implementation plan", "task">>
      [] formatter = "coder" ->
            IF "planner" \in DOMAIN ctx
            THEN IF "review_feedback" \in DOMAIN ctx
                 THEN <<"Fix the following issues", "task", ctx["planner"],
                        Get(ctx, "coder"), Get(ctx, "tester"),
                        ctx["review_feedback"]>>
                 ELSE <<"Implement the following task", "task", ctx["planner"]>>
            ELSE <<"task">>
      [] formatter = "tester" ->
            <<"Test the implementation", "task", Get(ctx, "coder")>>
      [] formatter = "reviewer" ->
            <<"Review the implementation", "task", Get(ctx, "coder"),
              Get(ctx, "tester")>>

(***************************************************************************)
(* Messages.                                                               *)
(***************************************************************************)
NoResult == [tool_call_id |-> <<0, 0>>, result |-> NoText]
UserMsg(content) ==
    [role |-> "user", content |-> content, tool_calls |-> <<>>,
     tool_result |-> NoResult]
AssistantWithTools(content, calls) ==
    [role |-> "assistant", content |-> content, tool_calls |-> calls,
     tool_result |-> NoResult]
ToolResultMsg(id, result) ==
    [role |-> "tool", content |-> NoOutput, tool_calls |-> <<>>,
     tool_result |-> [tool_call_id |-> id, result |-> result]]

Count(seq, x) == Cardinality({i \in 1..Len(seq) : seq[i] = x})

(***************************************************************************)
(* Init: the state when DevKiller::run has spawned the run task.           *)
(***************************************************************************)
\* pipelines whose runs exercise the pipeline loops and the iteration budget
FlowPipelines ==
    {DefaultPipeline(1, m) : m \in 0..MaxReview}
    \cup {SimplePipeline(b) : b \in 1..MaxIter}
\* a two-step pipeline whose runs exercise the approval gate: tools are
\* requested in both steps
GatePipeline == PlanCodePipeline(2, 1, 3)

\* a run without storage has no session (execute_run)
NoSession ==
    [id |-> 0, task |-> "", messages |-> <<>>, status |-> "Pending",
     phase |-> "NotStarted", error |-> <<>>]
\* no document has been exported yet
NoDocument ==
    [version |-> 0, original_id |-> 0, task |-> "", messages |-> <<>>,
     status |-> "Pending", phase |-> "NotStarted", error |-> <<>>]

InitWith(P, M, C) ==
    /\ pipeline \in P
    /\ approval_mode \in M
    /\ consumer \in C
    /\ pc = "start"
    /\ outcome = [status |-> "none", out |-> PlainOutput(NoOutput)]
    /\ stage = "pre" /\ idx = 0 /\ cur = 0 /\ review_iteration = 0
    /\ context = EmptyContext
    /\ stepLog = <<>> /\ verdicts = <<>>
    /\ iteration = 0 /\ messages = <<>> /\ response = NoOutput
    /\ tool_calls = <<>> /\ tool_results = <<>> /\ k = 0
    /\ llm_calls = 0 /\ executed = <<>>
    /\ always_approved = {} /\ slot = "none" /\ held = FALSE /\ waited = 0
    /\ answeredAlways = {} /\ askedNow = FALSE
    /\ chan = <<>> /\ closed = FALSE /\ tx_alive = TRUE /\ rcReceived = 0
    /\ session = NoSession /\ store = <<>> /\ saves = <<>>
    /\ portable = NoDocument /\ imported = 0
    /\ arg = <<>> /\ ret = <<>> /\ stream = <<>>

Init ==
    \/ InitWith(FlowPipelines, {"AutoApprove"}, {"never"})
    \/ InitWith({GatePipeline}, ApprovalModes, Consumers)

(***************************************************************************)
(* The run task: DevKiller::run, execute_run (no storage configured),      *)
(* execute_pipeline, execute_step and agent_loop.                          *)
(***************************************************************************)
\* execute_step up to agent_loop's first iteration: PhaseChanged,
\* format_task, AgentStarted, the seed conversation
BeginStep(r, q) ==
    LET step == Steps[r.cur]
    IN  /\ chan' = emit2(q, Ev("PhaseChanged", step.name), Ev("AgentStarted", step.name))
        /\ messages' = <<UserMsg(format_task(step.formatter, r.context))>>
        /\ iteration' = 0
        /\ llm_calls' = 0
        /\ stepLog' = Append(stepLog, step.name)
        /\ pc' = "loop_head"

\* where execute_pipeline returns to: execute_with_session when the run is
\* persisted, the spawned task of DevKiller::run otherwise
PipelineReturn == IF session.id # 0 THEN "sess_end" ELSE "run_end"

\* execute_pipeline moves on: r is the decision of AfterPre / AfterStep
Continue(r, q, calls) ==
    /\ stage' = r.stage /\ idx' = r.idx /\ cur' = r.cur
    /\ review_iteration' = r.review_iteration
    /\ context' = r.context
    /\ outcome' = r.outcome
    /\ response' = NoOutput /\ tool_calls' = <<>> /\ tool_results' = <<>>
    /\ k' = 0 /\ executed' = <<>>
    /\ IF r.next = "step"
       THEN BeginStep(r, q)
       ELSE /\ chan' = q
            /\ pc' = IF r.outcome.status = "panic" THEN "panicked" ELSE PipelineReturn
            /\ llm_calls' = calls
            /\ UNCHANGED <<messages, iteration, stepLog>>

\* the spawned task starts: execute_run -> execute_pipeline
RunStart ==
    /\ pc = "start"
    /\ Continue(AfterPre(0, EmptyContext), chan, 0)
    /\ UNCHANGED verdicts
    /\ UNCHANGED <<cfgVars, unitVars, sessVars, gateVars, closed, tx_alive, rcReceived>>

\* an error of agent_loop propagates through execute_step, execute_pipeline
\* and execute_run (the `?` operators)
Fail(text, q) ==
    /\ outcome' = [status |-> "err", out |-> PlainOutput([lines |-> <<text>>, tag |-> <<"error", 0>>])]
    /\ chan' = q
    /\ pc' = PipelineReturn

\* variant: the iteration range written as inclusive
BudgetExhaustedInclusive(it, max) == it > max
\* agent_loop: `for iteration in 0..max_iterations` has no iteration left
BudgetExhausted(it, max) == it >= max

\* agent_loop: head of `for iteration in 0..max_iterations`
LoopHead ==
    /\ pc = "loop_head"
    /\ LET step == Steps[cur]
       IN  IF BudgetExhausted(iteration, step.max_iterations)
           THEN /\ Fail(IterationExceededText(step.name, step.max_iterations), chan)
                /\ UNCHANGED <<pipeVars, loopVars>>
           ELSE /\ IF iteration > 0
                   THEN /\ chan' = emit(chan, Ev("IterationCompleted", step.name))
                        /\ pc' = "sleep"
                   ELSE /\ chan' = emit2(chan, Ev("IterationCompleted", step.name),
                                         Ev("LlmRequestStarted", step.name))
                        /\ pc' = "llm"
                /\ UNCHANGED <<outcome, pipeVars, loopVars>>
    /\ UNCHANGED <<cfgVars, unitVars, sessVars, gateVars, closed, tx_alive, rcReceived>>

\* the 100 ms pause is over
Sleep ==
    /\ pc = "sleep"
    /\ chan' = emit(chan, Ev("LlmRequestStarted", Steps[cur].name))
    /\ pc' = "llm"
    /\ UNCHANGED <<cfgVars, unitVars, sessVars, outcome, pipeVars, loopVars, gateVars, closed,
                   tx_alive, rcReceived>>

\* the tool calls a model response may carry: ids are unique in a response
\* (a single call of any name, or two calls of registered tools)
CallSeqs ==
    {<<t>> : t \in ToolNames} \cup {<<a, b>> : a, b \in RegisteredTools}
MkCalls(names) ==
    [i \in 1..Len(names) |-> [id |-> <<iteration, i>>, name |-> names[i]]]

\* the text of a model response for the current step
Outputs ==
    LET n == Count(stepLog, Steps[cur].name)
    IN  IF Steps[cur].is_review
        THEN {[lines |-> l, tag |-> <<Steps[cur].name, n>>] : l \in ReviewLines}
        ELSE {[lines |-> <<<<"done">>>>, tag |-> <<Steps[cur].name, n>>]}

\* provider.chat fails
LlmFails ==
    /\ pc = "llm"
    /\ Fail(LlmFailedText(Steps[cur].name), chan)
    /\ llm_calls' = llm_calls + 1
    /\ UNCHANGED <<cfgVars, unitVars, sessVars, pipeVars, iteration, messages, response, tool_calls,
                   tool_results, k, executed, gateVars, closed, tx_alive,
                   rcReceived>>

\* variant: the text returned is the one kept from the previous response
LlmFinalStale ==
    /\ pc = "llm"
    /\ \E out \in Outputs :
         LET q == emit2(chan, Ev("LlmResponseCompleted", Steps[cur].name),
                        Ev("AgentCompleted", Steps[cur].name))
         IN  /\ Continue(AfterStep(response), q, llm_calls + 1)
             /\ verdicts' = IF stage = "review"
                             THEN Append(verdicts, is_review_approved(response))
                             ELSE verdicts
    /\ UNCHANGED <<cfgVars, unitVars, sessVars, gateVars, closed, tx_alive, rcReceived>>

\* provider.chat returns a response without tool calls: agent_loop returns
\* its text, execute_step emits AgentCompleted, execute_pipeline moves on
LlmFinal ==
    /\ pc = "llm"
    /\ \E out \in Outputs :
         LET q == emit2(chan, Ev("LlmResponseCompleted", Steps[cur].name),
                        Ev("AgentCompleted", Steps[cur].name))
         IN  /\ Continue(AfterStep(out), q, llm_calls + 1)
             /\ verdicts' = IF stage = "review"
                             THEN Append(verdicts, is_review_approved(out))
                             ELSE verdicts
    /\ UNCHANGED <<cfgVars, unitVars, sessVars, gateVars, closed, tx_alive, rcReceived>>

\* provider.chat returns a response that requests tools
LlmTools ==
    /\ pc = "llm"
    /\ \E names \in CallSeqs :
         /\ tool_calls' = MkCalls(names)
         /\ response' = [lines |-> <<<<"thinking">>>>, tag |-> <<Steps[cur].name, iteration>>]
    /\ tool_results' = <<>>
    /\ executed' = <<>>
    /\ k' = 1
    /\ llm_calls' = llm_calls + 1
    /\ chan' = emit(chan, Ev("LlmResponseCompleted", Steps[cur].name))
    /\ pc' = "call_begin"
    /\ UNCHANGED <<cfgVars, unitVars, sessVars, outcome, pipeVars, iteration, messages, gateVars,
                   closed, tx_alive, rcReceived>>

\* variant: results collected in reverse order
PushResultPrepends(result, invoked, q) ==
    LET results == <<<<tool_calls[k].id, result>>>> \o tool_results
    IN  /\ tool_results' = results
        /\ executed' = <<invoked>> \o executed
        /\ chan' = q
        /\ IF k < Len(tool_calls)
           THEN /\ k' = k + 1
                /\ pc' = "call_begin"
                /\ UNCHANGED <<messages, iteration>>
           ELSE /\ k' = k
                /\ messages' = messages
                     \o <<AssistantWithTools(response, tool_calls)>>
                     \o [i \in 1..Len(results) |->
                            ToolResultMsg(results[i][1], results[i][2])]
                /\ iteration' = iteration + 1
                /\ pc' = "loop_head"
        /\ UNCHANGED <<outcome, pipeVars, response, tool_calls, llm_calls>>

\* variant: the assistant message is pushed after the tool results
PushResultAssistantLast(result, invoked, q) ==
    LET results == Append(tool_results, <<tool_calls[k].id, result>>)
    IN  /\ tool_results' = results
        /\ executed' = Append(executed, invoked)
        /\ chan' = q
        /\ IF k < Len(tool_calls)
           THEN /\ k' = k + 1
                /\ pc' = "call_begin"
                /\ UNCHANGED <<messages, iteration>>
           ELSE /\ k' = k
                /\ messages' = messages
                     \o [i \in 1..Len(results) |->
                            ToolResultMsg(results[i][1], results[i][2])]
                     \o <<AssistantWithTools(response, tool_calls)>>
                /\ iteration' = iteration + 1
                /\ pc' = "loop_head"
        /\ UNCHANGED <<outcome, pipeVars, response, tool_calls, llm_calls>>

\* agent_loop records the result of call k; after the last call of the
\* response it appends the assistant message and the tool-result messages
PushResult(result, invoked, q) ==
    LET results == Append(tool_results, <<tool_calls[k].id, result>>)
    IN  /\ tool_results' = results
        /\ executed' = Append(executed, invoked)
        /\ chan' = q
        /\ IF k < Len(tool_calls)
           THEN /\ k' = k + 1
                /\ pc' = "call_begin"
                /\ UNCHANGED <<messages, iteration>>
           ELSE /\ k' = k
                /\ messages' = messages
                     \o <<AssistantWithTools(response, tool_calls)>>
                     \o [i \in 1..Len(results) |->
                            ToolResultMsg(results[i][1], results[i][2])]
                /\ iteration' = iteration + 1
                /\ pc' = "loop_head"
        /\ UNCHANGED <<outcome, pipeVars, response, tool_calls, llm_calls>>

\* variant: an approved call goes to the tool without ToolStarted
ApprovedSilently(q) ==
    /\ chan' = q
    /\ pc' = "exec"
    /\ UNCHANGED <<outcome, pipeVars, loopVars>>
\* execute_with_approval after ApprovalResult::Approved: ToolStarted
Approved(q) ==
    /\ chan' = emit(q, Ev("ToolStarted", tool_calls[k].name))
    /\ pc' = "exec"
    /\ UNCHANGED <<outcome, pipeVars, loopVars>>

\* execute_with_approval: the allow-list check
AllowedByFilter(allowed, name) == ~allowed.some \/ name \in allowed.names

\* variant: ApproveDangerous that asks for the tools outside the list
needs_approval_inverted(mode, tool_name) ==
    CASE mode = "AutoApprove" -> FALSE
      [] mode = "ApproveDangerous" -> tool_name \notin DANGEROUS_TOOLS
      [] mode = "ApproveAll" -> TRUE
      [] mode = "Custom" -> ~CustomAutoApproves(tool_name)

\* request_tool_approval: `needs_approval`
needs_approval(mode, tool_name) ==
    CASE mode = "AutoApprove" -> FALSE
      [] mode = "ApproveDangerous" -> tool_name \in DANGEROUS_TOOLS
      [] mode = "ApproveAll" -> TRUE
      [] mode = "Custom" -> ~CustomAutoApproves(tool_name)

\* request_tool_approval up to the send: does the gate ask the consumer
MustAsk(approved_set, mode, tool_name) ==
    tool_name \notin approved_set /\ needs_approval(mode, tool_name)

\* execute_with_approval, from its start to the first point where it waits
ToolCallBegin ==
    /\ pc = "call_begin"
    /\ LET name == tool_calls[k].name
       IN  IF ~AllowedByFilter(Steps[cur].allowed_tools, name)
           THEN PushResult(NotAvailableText(name), FALSE, chan)
           ELSE IF MustAsk(always_approved, approval_mode, name)
                THEN /\ pc' = "approval_send"
                     /\ UNCHANGED <<chan, outcome, pipeVars, loopVars>>
                ELSE Approved(chan)
    /\ askedNow' = FALSE
    /\ UNCHANGED <<cfgVars, unitVars, sessVars, always_approved, slot, held, waited, answeredAlways,
                   closed, tx_alive, rcReceived>>

\* variant: a send that fails because the receiver is gone denies the call
ApprovalSendDeniesWhenClosed ==
    /\ pc = "approval_send"
    /\ IF closed
       THEN /\ PushResult(DeniedNoResponseText(tool_calls[k].name), FALSE, chan)
            /\ UNCHANGED gateVars
       ELSE /\ Len(chan) < ChanCap
            /\ chan' = Append(chan, ApprovalEv(tool_calls[k].name))
            /\ slot' = "waiting"
            /\ waited' = 0
            /\ askedNow' = TRUE
            /\ pc' = "approval_wait"
            /\ UNCHANGED <<outcome, pipeVars, loopVars, always_approved, held,
                           answeredAlways>>
    /\ UNCHANGED <<cfgVars, unitVars, sessVars, closed, tx_alive, rcReceived>>
\* request_tool_approval: sender.send(event).await, which waits for room
\* in the channel and fails when the receiver is gone
ApprovalSend ==
    /\ pc = "approval_send"
    /\ IF closed
       THEN /\ Approved(chan)
            /\ UNCHANGED gateVars
       ELSE /\ Len(chan) < ChanCap
            /\ chan' = Append(chan, ApprovalEv(tool_calls[k].name))
            /\ slot' = "waiting"
            /\ waited' = 0
            /\ askedNow' = TRUE
            /\ pc' = "approval_wait"
            /\ UNCHANGED <<outcome, pipeVars, loopVars, always_approved, held,
                           answeredAlways>>
    /\ UNCHANGED <<cfgVars, unitVars, sessVars, closed, tx_alive, rcReceived>>

\* the reason a consumer gives with ToolApprovalResponse::Deny
DenyReason == "not now"

\* variant: an ApproveAlways reply that is not remembered
ApprovalRepliedForgets ==
    /\ pc = "approval_wait"
    /\ slot \in {"Approve", "ApproveAlways", "Deny", "dropped"}
    /\ LET name == tool_calls[k].name
       IN  CASE slot \in {"Approve", "ApproveAlways"} -> Approved(chan)
             [] slot = "Deny" ->
                  PushResult(DeniedByUserText(name, DenyReason), FALSE, chan)
             [] slot = "dropped" ->
                  PushResult(DeniedNoResponseText(name), FALSE, chan)
    /\ always_approved' = always_approved
    /\ slot' = "none"
    /\ waited' = 0
    /\ UNCHANGED <<cfgVars, unitVars, sessVars, held, answeredAlways, askedNow, closed, tx_alive,
                   rcReceived>>

\* request_tool_approval: timeout(.., rx) returns the reply, or the error
\* of a dropped reply slot
ApprovalReplied ==
    /\ pc = "approval_wait"
    /\ slot \in {"Approve", "ApproveAlways", "Deny", "dropped"}
    /\ LET name == tool_calls[k].name
       IN  /\ always_approved' =
                IF slot = "ApproveAlways" THEN always_approved \cup {name}
                ELSE always_approved
           /\ CASE slot \in {"Approve", "ApproveAlways"} -> Approved(chan)
                [] slot = "Deny" ->
                     PushResult(DeniedByUserText(name, DenyReason), FALSE, chan)
                [] slot = "dropped" ->
                     PushResult(DeniedNoResponseText(name), FALSE, chan)
    /\ slot' = "none"
    /\ waited' = 0
    /\ UNCHANGED <<cfgVars, unitVars, sessVars, held, answeredAlways, askedNow, closed, tx_alive,
                   rcReceived>>

\* the rest of the approval timeout passes while the run waits for the reply
Tick ==
    /\ pc = "approval_wait"
    /\ slot = "waiting"
    /\ waited < APPROVAL_TIMEOUT_SECS
    /\ waited' = APPROVAL_TIMEOUT_SECS
    /\ UNCHANGED <<cfgVars, unitVars, sessVars, pc, outcome, pipeVars, loopVars, always_approved,
                   slot, held, answeredAlways, askedNow, chanVars>>

\* variant: an expired timeout treated as an approval
ApprovalTimeoutApproves ==
    /\ pc = "approval_wait"
    /\ slot = "waiting"
    /\ waited = APPROVAL_TIMEOUT_SECS
    /\ Approved(Expire(chan))
    /\ slot' = "none"
    /\ held' = FALSE
    /\ waited' = 0
    /\ UNCHANGED <<cfgVars, unitVars, sessVars, always_approved, answeredAlways, askedNow, closed,
                   tx_alive, rcReceived>>

\* request_tool_approval: the timeout expires before any reply
ApprovalTimeout ==
    /\ pc = "approval_wait"
    /\ slot = "waiting"
    /\ waited = APPROVAL_TIMEOUT_SECS
    /\ PushResult(DeniedTimeoutText(tool_calls[k].name), FALSE, Expire(chan))
    /\ slot' = "none"
    /\ held' = FALSE
    /\ waited' = 0
    /\ UNCHANGED <<cfgVars, unitVars, sessVars, always_approved, answeredAlways, askedNow, closed,
                   tx_alive, rcReceived>>

\* variant: an unknown tool or a failed tool ends the step with an error
ToolExecuteStrict ==
    /\ pc = "exec"
    /\ LET name == tool_calls[k].name
       IN  IF RegistryGet(name) # None
           THEN \E ok \in BOOLEAN :
                  IF ok
                  THEN PushResult(ToolOutputText(name), TRUE,
                                  emit(chan, Ev("ToolCompleted", name)))
                  ELSE /\ Fail(ToolErrorText(name), chan)
                       /\ UNCHANGED <<pipeVars, loopVars>>
           ELSE /\ Fail(UnknownToolText(name), chan)
                /\ UNCHANGED <<pipeVars, loopVars>>
    /\ UNCHANGED <<cfgVars, unitVars, sessVars, gateVars, closed, tx_alive, rcReceived>>

\* execute_with_approval: tools.get, tool.execute, ToolCompleted
ToolExecute ==
    /\ pc = "exec"
    /\ LET name == tool_calls[k].name
       IN  IF RegistryGet(name) # None
           THEN \E ok \in BOOLEAN :
                  LET result == IF ok THEN ToolOutputText(name)
                                ELSE ToolErrorText(name)
                  IN  PushResult(result, TRUE,
                                 emit(chan, Ev("ToolCompleted", name)))
           ELSE PushResult(UnknownToolText(name), FALSE,
                           emit(chan, Ev("ToolCompleted", name)))
    /\ UNCHANGED <<cfgVars, unitVars, sessVars, gateVars, closed, tx_alive, rcReceived>>

\* variant: the task ends while a clone of its EventSender lives on
RunEndKeepsSender ==
    /\ pc = "run_end"
    /\ chan' = emit(chan, Ev("RunCompleted", outcome.status))
    /\ pc' = "done"
    /\ UNCHANGED <<cfgVars, unitVars, sessVars, outcome, pipeVars, loopVars, gateVars, closed,
                   tx_alive, rcReceived>>

\* the spawned task of DevKiller::run after execute_run: RunCompleted is
\* emitted with EventSender::emit, then the EventSender is dropped
RunEnd ==
    /\ pc = "run_end"
    /\ chan' = emit(chan, Ev("RunCompleted", outcome.status))
    /\ tx_alive' = FALSE
    /\ pc' = "done"
    /\ UNCHANGED <<cfgVars, unitVars, sessVars, outcome, pipeVars, loopVars, gateVars, closed,
                   rcReceived>>

(***************************************************************************)
(* The holder of the RunHandle.                                            *)
(***************************************************************************)
\* RunHandle::next_event returns an event
Recv ==
    /\ consumer \in {"silent", "responsive"}
    /\ ~closed
    /\ chan # <<>>
    /\ chan' = Tail(chan)
    /\ held' = (held \/ (Head(chan).type = "ToolApprovalRequired" /\ Head(chan).live))
    /\ rcReceived' = rcReceived + (IF Head(chan).type = "RunCompleted" THEN 1 ELSE 0)
    /\ UNCHANGED <<cfgVars, unitVars, sessVars, pc, outcome, pipeVars, loopVars, always_approved,
                   slot, waited, answeredAlways, askedNow, closed, tx_alive>>

\* the consumer answers through the reply slot it holds
Reply ==
    /\ consumer = "responsive"
    /\ held
    /\ \E r \in {"Approve", "ApproveAlways", "Deny"} :
         /\ slot' = r
         /\ answeredAlways' =
              IF r = "ApproveAlways" THEN answeredAlways \cup {tool_calls[k].name}
              ELSE answeredAlways
    /\ held' = FALSE
    /\ UNCHANGED <<cfgVars, unitVars, sessVars, pc, outcome, pipeVars, loopVars, always_approved,
                   waited, askedNow, chanVars>>

\* the consumer drops the event, and the reply slot with it, unanswered
DropSlot ==
    /\ consumer = "silent"
    /\ held
    /\ slot' = "dropped"
    /\ held' = FALSE
    /\ UNCHANGED <<cfgVars, unitVars, sessVars, pc, outcome, pipeVars, loopVars, always_approved,
                   waited, answeredAlways, askedNow, chanVars>>

\* the consumer drops the RunHandle: the receiver is gone and the queued
\* events, with any reply slot among them, are dropped
CloseReceiver ==
    /\ consumer = "leaving"
    /\ ~closed
    /\ closed' = TRUE
    /\ chan' = <<>>
    /\ slot' = IF \E i \in 1..Len(chan) : chan[i].live THEN "dropped" ELSE slot
    /\ UNCHANGED <<cfgVars, unitVars, sessVars, pc, outcome, pipeVars, loopVars, always_approved,
                   held, waited, answeredAlways, askedNow, tx_alive, rcReceived>>

RunTask ==
    \/ RunStart \/ LoopHead \/ Sleep \/ LlmFails \/ LlmFinal \/ LlmTools
    \/ ToolCallBegin \/ ApprovalSend \/ ApprovalReplied \/ ApprovalTimeout
    \/ ToolExecute \/ RunEnd

Next ==
    \/ RunStart \/ LoopHead \/ Sleep \/ LlmFails \/ LlmFinal \/ LlmTools
    \/ ToolCallBegin \/ ApprovalSend \/ ApprovalReplied \/ ApprovalTimeout
    \/ ToolExecute \/ RunEnd
    \/ Tick \/ Recv \/ Reply \/ DropSlot \/ CloseReceiver

Spec == Init /\ [][Next]_vars

\* The run task is a spawned tokio task that runs whenever it can; the
\* timer of the approval timeout fires; a consumer that receives events
\* keeps calling next_event.  Nothing obliges a consumer to reply.
FairSpec ==
    /\ Spec
    /\ WF_vars(RunTask)
    /\ WF_vars(Tick)
    /\ WF_vars(Recv)

(***************************************************************************)
(* The earlier engine: OrchestratorAgent::run and the loops of             *)
(* PlannerAgent, CoderAgent, TesterAgent and ReviewerAgent::run.  The      *)
(* agents are described by the same records as pipeline steps:             *)
(* allowed_tools is the filter the agent applies to the tools it shows     *)
(* to the model, max_iterations its MAX_ITERATIONS (scaled).               *)
(***************************************************************************)
MAX_REVIEW_ITERATIONS == 3
LegacyAgents(b) ==
    [steps |-> <<PlanStep(b), CodeStep(b), TestStep(b),
                 [ReviewStep(b) EXCEPT
                    !.allowed_tools = Only({"shell", "glob", "grep", "read_file"})]>>,
     max_review_iterations |-> MAX_REVIEW_ITERATIONS]

\* the task each agent is started with by OrchestratorAgent::run
LegacyTask(agent, ctx) ==
    CASE agent = "planner" -> <<"Create an implementation plan", "task">>
      [] agent = "coder" ->
            IF "review_feedback" \in DOMAIN ctx
            THEN <<"Fix the following issues", "task", ctx["review_feedback"]>>
            ELSE <<"Implement the following task", "task", ctx["planner"]>>
      [] agent = "tester" ->
            <<"Test and validate", "Test the implementation", "task", ctx["coder"]>>
      [] agent = "reviewer" ->
            <<"Review the following implementation", "Review the implementation",
              "task", ctx["coder"], ctx["tester"]>>

\* OrchestratorAgent::run: `review_lower.contains("approved") &&
\* !review_lower.contains("needs_work")`
LegacyApproved(review) ==
    ContainsWord(review.lines, "approved") /\ ~ContainsWord(review.lines, "needs_work")

LegacySuccessOutput(ctx, review) ==
    [head |-> "# Task Completed", task |-> "task",
     sections |-> {<<"Plan", ctx["planner"]>>, <<"Implementation", ctx["coder"]>>,
                   <<"Test Results", ctx["tester"]>>, <<"Review", review>>},
     status |-> "SUCCESS"]

\* variant: the last review round is not made
LegacyAfterStepStopsEarly(output) ==
    LET ctx == Insert(context, Steps[cur].name, output)
        ri == review_iteration
    IN  CASE stage = "pre" /\ cur < 3 -> Go("pre", cur + 1, 0, ctx)
          [] stage = "pre" /\ cur = 3 -> Go("review", 4, 0, ctx)
          [] stage = "review" ->
                IF LegacyApproved(output)
                THEN Return("ok", LegacySuccessOutput(context, output), ri, ctx)
                ELSE IF ri < MAX_REVIEW_ITERATIONS - 2
                     THEN Go("rerun", 2, ri, Insert(context, "review_feedback", output))
                     ELSE Return("ok", NeedsManualReviewOutput, ri + 1, context)
          [] stage = "rerun" /\ cur = 2 -> Go("rerun", 3, ri, ctx)
          [] stage = "rerun" /\ cur = 3 -> Go("review", 4, ri + 1, ctx)
\* OrchestratorAgent::run: which agent runs after agent i returned output
LegacyAfterStep(output) ==
    LET ctx == Insert(context, Steps[cur].name, output)
        ri == review_iteration
    IN  CASE stage = "pre" /\ cur < 3 -> Go("pre", cur + 1, 0, ctx)
          [] stage = "pre" /\ cur = 3 -> Go("review", 4, 0, ctx)
          [] stage = "review" ->
                IF LegacyApproved(output)
                THEN Return("ok", LegacySuccessOutput(context, output), ri, ctx)
                ELSE IF ri < MAX_REVIEW_ITERATIONS - 1
                     THEN Go("rerun", 2, ri, Insert(context, "review_feedback", output))
                     ELSE Return("ok", NeedsManualReviewOutput, ri + 1, context)
          [] stage = "rerun" /\ cur = 2 -> Go("rerun", 3, ri, ctx)
          [] stage = "rerun" /\ cur = 3 -> Go("review", 4, ri + 1, ctx)

LegacyInit ==
    /\ pipeline \in {LegacyAgents(b) : b \in 1..MaxIter}
    /\ approval_mode = "AutoApprove"
    /\ consumer = "never"
    /\ pc = "L_start"
    /\ outcome = [status |-> "none", out |-> PlainOutput(NoOutput)]
    /\ stage = "pre" /\ idx = 0 /\ cur = 0 /\ review_iteration = 0
    /\ context = EmptyContext
    /\ stepLog = <<>> /\ verdicts = <<>>
    /\ iteration = 0 /\ messages = <<>> /\ response = NoOutput
    /\ tool_calls = <<>> /\ tool_results = <<>> /\ k = 0
    /\ llm_calls = 0 /\ executed = <<>>
    /\ always_approved = {} /\ slot = "none" /\ held = FALSE /\ waited = 0
    /\ answeredAlways = {} /\ askedNow = FALSE
    /\ chan = <<>> /\ closed = FALSE /\ tx_alive = FALSE /\ rcReceived = 0
    /\ session = NoSession /\ store = <<>> /\ saves = <<>>
    /\ portable = NoDocument /\ imported = 0
    /\ arg = <<>> /\ ret = <<>> /\ stream = <<>>

\* where agent.run returns to: Executor::run_with_session or Executor::run
LegacyReturn == IF session.id # 0 THEN "L_sess_end" ELSE "L_done"

\* OrchestratorAgent::run starts the agent r.cur, or returns
LegacyContinue(r, calls) ==
    /\ stage' = r.stage /\ idx' = r.idx /\ cur' = r.cur
    /\ review_iteration' = r.review_iteration
    /\ context' = r.context
    /\ outcome' = r.outcome
    /\ response' = NoOutput /\ tool_calls' = <<>> /\ tool_results' = <<>>
    /\ k' = 0 /\ executed' = <<>>
    /\ IF r.next = "step"
       THEN /\ messages' = <<UserMsg(LegacyTask(Steps[r.cur].name, r.context))>>
            /\ iteration' = 0
            /\ llm_calls' = 0
            /\ stepLog' = Append(stepLog, Steps[r.cur].name)
            /\ pc' = "L_loop"
       ELSE /\ pc' = LegacyReturn
            /\ llm_calls' = calls
            /\ UNCHANGED <<messages, iteration, stepLog>>

LegacyStart ==
    /\ pc = "L_start"
    /\ LegacyContinue(Go("pre", 1, 0, EmptyContext), 0)
    /\ UNCHANGED verdicts
    /\ UNCHANGED <<cfgVars, unitVars, sessVars, gateVars, chanVars>>

\* the `anyhow::bail!` after the loop of <Agent>::run (CoderAgent's text
\* says "agent")
LegacyExceededText(agent, max) ==
    <<IF agent = "coder" THEN "agent" ELSE agent,
      " exceeded maximum iterations (", ToString(max), ")">>

\* <Agent>::run: head of `for iteration in 0..MAX_ITERATIONS`
LegacyLoopHead ==
    /\ pc = "L_loop"
    /\ IF iteration >= Steps[cur].max_iterations
       THEN /\ outcome' = [status |-> "err",
                           out |-> PlainOutput(
                               [lines |-> <<LegacyExceededText(
                                              Steps[cur].name, Steps[cur].max_iterations)>>,
                                tag |-> <<"error", 0>>])]
            /\ pc' = LegacyReturn
       ELSE /\ pc' = "L_llm"
            /\ UNCHANGED outcome
    /\ UNCHANGED <<cfgVars, unitVars, sessVars, pipeVars, loopVars, gateVars, chanVars>>

LegacyLlmFails ==
    /\ pc = "L_llm"
    /\ outcome' = [status |-> "err",
                   out |-> PlainOutput([lines |-> <<<<"LLM chat failed">>>>,
                                        tag |-> <<"error", 0>>])]
    /\ llm_calls' = llm_calls + 1
    /\ pc' = LegacyReturn
    /\ UNCHANGED <<cfgVars, unitVars, sessVars, pipeVars, iteration, messages, response, tool_calls,
                   tool_results, k, executed, gateVars, chanVars>>

LegacyLlmFinal ==
    /\ pc = "L_llm"
    /\ \E out \in Outputs :
         /\ LegacyContinue(LegacyAfterStep(out), llm_calls + 1)
         /\ verdicts' = IF stage = "review"
                         THEN Append(verdicts, LegacyApproved(out))
                         ELSE verdicts
    /\ UNCHANGED <<cfgVars, unitVars, sessVars, gateVars, chanVars>>

LegacyLlmTools ==
    /\ pc = "L_llm"
    /\ \E names \in CallSeqs :
         /\ tool_calls' = MkCalls(names)
         /\ response' = [lines |-> <<<<"thinking">>>>, tag |-> <<Steps[cur].name, iteration>>]
    /\ tool_results' = <<>>
    /\ executed' = <<>>
    /\ k' = 1
    /\ llm_calls' = llm_calls + 1
    /\ pc' = "L_exec"
    /\ UNCHANGED <<cfgVars, unitVars, sessVars, outcome, pipeVars, iteration, messages, gateVars,
                   chanVars>>

\* <Agent>::run: `if let Some(tool) = tools.get(&tool_call.name)` ... for
\* the call k, then the messages after the last call
LegacyToolExecute ==
    /\ pc = "L_exec"
    /\ LET name == tool_calls[k].name
       IN  \E ok \in BOOLEAN :
             LET invoked == RegistryGet(name) # None
                 result == IF ~invoked THEN UnknownToolText(name)
                           ELSE IF ok THEN ToolOutputText(name)
                           ELSE ToolErrorText(name)
                 results == Append(tool_results, <<tool_calls[k].id, result>>)
             IN  /\ tool_results' = results
                 /\ executed' = Append(executed, invoked)
                 /\ IF k < Len(tool_calls)
                    THEN /\ k' = k + 1
                         /\ pc' = "L_exec"
                         /\ UNCHANGED <<messages, iteration>>
                    ELSE /\ k' = k
                         /\ messages' = messages
                              \o <<AssistantWithTools(response, tool_calls)>>
                              \o [i \in 1..Len(results) |->
                                     ToolResultMsg(results[i][1], results[i][2])]
                         /\ iteration' = iteration + 1
                         /\ pc' = "L_loop"
    /\ UNCHANGED <<cfgVars, unitVars, sessVars, outcome, pipeVars, response, tool_calls, llm_calls,
                   gateVars, chanVars>>

LegacyNext ==
    \/ LegacyStart \/ LegacyLoopHead \/ LegacyLlmFails \/ LegacyLlmFinal
    \/ LegacyLlmTools \/ LegacyToolExecute

LegacySpec == LegacyInit /\ [][LegacyNext]_vars

(***************************************************************************)
(* Sessions: SessionState, PortableSession, the SQLite storage, and the    *)
(* persisted runs of DevKiller (run, resume, execute_with_session) and of  *)
(* the earlier Executor (run_with_session, resume_session).                *)
(***************************************************************************)
SessionStatuses == {"Pending", "InProgress", "Completed", "Failed", "Interrupted"}

\* serde of Message: an empty tool_calls and an absent tool_result are not
\* written
MessageToJson(m) ==
    [f \in {"role", "content"}
          \cup (IF m.tool_calls = <<>> THEN {} ELSE {"tool_calls"})
          \cup (IF m.tool_result = NoResult THEN {} ELSE {"tool_result"})
       |-> m[f]]
\* serde of Message: a missing tool_calls or tool_result takes its default
MessageFromJson(j) ==
    [role |-> j["role"], content |-> j["content"],
     tool_calls |-> IF "tool_calls" \in DOMAIN j THEN j["tool_calls"] ELSE <<>>,
     tool_result |-> IF "tool_result" \in DOMAIN j THEN j["tool_result"]
                     ELSE NoResult]
\* serde_json::to_string(&session)
SessionToJson(s) ==
    [s EXCEPT !.messages = [i \in 1..Len(s.messages) |-> MessageToJson(s.messages[i])]]
\* serde_json::from_str(&data)
SessionFromJson(d) ==
    [d EXCEPT !.messages = [i \in 1..Len(d.messages) |-> MessageFromJson(d.messages[i])]]

\* variant: INSERT OR IGNORE, an existing record is kept
SaveKeepsEarlier(s) ==
    [i \in DOMAIN store \cup {s.id} |->
        IF i \in DOMAIN store THEN store[i] ELSE SessionToJson(s)]
\* Storage::save, when it succeeds: INSERT OR REPLACE of the serialised session
Save(s) == [i \in DOMAIN store \cup {s.id} |->
              IF i = s.id THEN SessionToJson(s) ELSE store[i]]
\* Storage::load, when it succeeds: the session, or None (NoSession)
Load(id) == IF id \in DOMAIN store THEN SessionFromJson(store[id]) ELSE NoSession
SaveRecord(s, ok) == [id |-> s.id, status |-> s.status, phase |-> s.phase, ok |-> ok]

\* Uuid::new_v4: an id that has not been issued before
IssuedIds == DOMAIN store \cup {session.id, portable.original_id, imported}
NewId == 1 + CHOOSE m \in IssuedIds : \A i \in IssuedIds : i <= m

\* SessionState::new
NewSession(task) == [NoSession EXCEPT !.id = NewId, !.task = task]
\* SessionState::set_error
set_error(s, text) == [s EXCEPT !.error = <<text>>, !.status = "Failed"]
\* variant: the phase is left as it was
complete_keeps_phase(s) == [s EXCEPT !.status = "Completed"]
\* variant: completing a session drops its transcript
complete_drops_messages(s) ==
    [s EXCEPT !.status = "Completed", !.phase = "Completed", !.messages = <<>>]
\* SessionState::complete
complete(s) == [s EXCEPT !.status = "Completed", !.phase = "Completed"]
\* variant: a failed session may be resumed as well
can_resume_failed(s) == s.status \in {"Pending", "InProgress", "Interrupted", "Failed"}
\* variant: every session may be resumed
can_resume_any(s) == s.status \in SessionStatuses
\* SessionState::can_resume
can_resume(s) == s.status \in {"Pending", "InProgress", "Interrupted"}

\* PortableSession::from_session
from_session(s) ==
    [version |-> 1, original_id |-> s.id, task |-> s.task, messages |-> s.messages,
     status |-> s.status, phase |-> s.phase, error |-> s.error]
\* variant: the imported session keeps the status it was exported with
into_session_keeps_status(p) ==
    [id |-> NewId, task |-> p.task, messages |-> p.messages,
     status |-> p.status, phase |-> p.phase, error |-> p.error]
\* PortableSession::into_session
into_session(p) ==
    [id |-> NewId, task |-> p.task, messages |-> p.messages,
     status |-> "Interrupted", phase |-> p.phase, error |-> p.error]

\* the errors of the session layer, as the caller receives them
ErrOutcome(kind, text) ==
    [status |-> "err", out |-> PlainOutput([lines |-> <<text>>, tag |-> <<kind, 0>>])]
\* the text and the kind of the error in `outcome`
OutcomeError == (CHOOSE x \in outcome.out.sections : TRUE)[2].lines[1]
OutcomeKind == (CHOOSE x \in outcome.out.sections : TRUE)[2].tag[1]

\* a conversation a stored session may carry
StoredTranscript ==
    <<UserMsg(<<"task">>),
      AssistantWithTools([lines |-> <<<<"thinking">>>>, tag |-> <<"planner", 0>>],
                         <<[id |-> <<0, 1>>, name |-> "read_file"]>>),
      ToolResultMsg(<<0, 1>>, ToolOutputText("read_file"))>>
\* the session the storage holds at the start, in each status
StoredSession(st, msgs) ==
    [id |-> 1, task |-> "fix the bug", messages |-> msgs, status |-> st,
     phase |-> CASE st = "Pending" -> "NotStarted"
                 [] st = "Completed" -> "Completed"
                 [] OTHER -> "Planning",
     error |-> IF st = "Failed" THEN <<LlmFailedText("planner")>> ELSE <<>>]
\* the pipelines of the persisted runs: the review loop, and a step that
\* has a second iteration
SessionPipelines ==
    {DefaultPipeline(1, m) : m \in 1..MaxReview} \cup {SimplePipeline(2)}

SessionInit ==
    /\ \/ /\ pc = "s_idle"
          /\ pipeline \in SessionPipelines
          /\ tx_alive = TRUE
       \/ /\ pc = "Ls_idle"
          /\ pipeline = LegacyAgents(1)
          /\ tx_alive = FALSE
    /\ approval_mode = "AutoApprove"
    /\ consumer = "never"
    /\ outcome = [status |-> "none", out |-> PlainOutput(NoOutput)]
    /\ stage = "pre" /\ idx = 0 /\ cur = 0 /\ review_iteration = 0
    /\ context = EmptyContext
    /\ stepLog = <<>> /\ verdicts = <<>>
    /\ iteration = 0 /\ messages = <<>> /\ response = NoOutput
    /\ tool_calls = <<>> /\ tool_results = <<>> /\ k = 0
    /\ llm_calls = 0 /\ executed = <<>>
    /\ always_approved = {} /\ slot = "none" /\ held = FALSE /\ waited = 0
    /\ answeredAlways = {} /\ askedNow = FALSE
    /\ chan = <<>> /\ closed = FALSE /\ rcReceived = 0
    /\ session = NoSession
    /\ \E st \in SessionStatuses, msgs \in {<<>>, StoredTranscript} :
         store = [i \in {1} |-> SessionToJson(StoredSession(st, msgs))]
    /\ saves = <<>>
    /\ portable = NoDocument /\ imported = 0
    /\ arg = <<>> /\ ret = <<>> /\ stream = <<>>

\* DevKiller::run with storage configured: execute_run creates the session
SessRun ==
    /\ pc = "s_idle"
    /\ session' = NewSession("task")
    /\ pc' = "sess_begin"
    /\ UNCHANGED <<cfgVars, unitVars, outcome, pipeVars, loopVars, gateVars, chanVars,
                   store, saves, portable, imported>>

\* DevKiller::resume up to the spawn of the run task; the id is a stored
\* one or one that was never issued
SessResume ==
    /\ pc = "s_idle"
    /\ \E id \in DOMAIN store \cup {NewId}, loads \in BOOLEAN :
         LET loaded == Load(id)
         IN  IF ~loads
             THEN /\ outcome' = ErrOutcome("session", <<"failed to load session">>)
                  /\ pc' = "returned_err"
                  /\ UNCHANGED session
             ELSE IF loaded = NoSession
             THEN /\ outcome' = ErrOutcome("session", <<"session not found: ", ToString(id)>>)
                  /\ pc' = "returned_err"
                  /\ UNCHANGED session
             ELSE IF ~can_resume(loaded)
             THEN /\ outcome' = ErrOutcome("session",
                                   <<"session cannot be resumed (status: ",
                                     loaded.status, ")">>)
                  /\ pc' = "returned_err"
                  /\ UNCHANGED session
             ELSE /\ session' = loaded
                  /\ pc' = "sess_begin"
                  /\ UNCHANGED outcome
    /\ UNCHANGED <<cfgVars, unitVars, pipeVars, loopVars, gateVars, chanVars,
                   store, saves, portable, imported>>

\* execute_with_session up to execute_pipeline: InProgress / Planning, the
\* first save, SessionSaved
SessBegin ==
    /\ pc = "sess_begin"
    /\ LET s == [session EXCEPT !.status = "InProgress", !.phase = "Planning"]
       IN  /\ session' = s
           /\ \E ok \in BOOLEAN :
                /\ saves' = Append(saves, SaveRecord(s, ok))
                /\ IF ok
                   THEN /\ store' = Save(s)
                        /\ chan' = emit(chan, Ev("SessionSaved", ToString(s.id)))
                        /\ pc' = "start"
                        /\ UNCHANGED outcome
                   ELSE /\ outcome' = ErrOutcome("storage", <<"failed to save session">>)
                        /\ pc' = "run_end"
                        /\ UNCHANGED <<store, chan>>
    /\ UNCHANGED <<cfgVars, unitVars, pipeVars, loopVars, gateVars, closed, tx_alive,
                   rcReceived, portable, imported>>

\* variant: a failing save after a successful pipeline is only logged
SessEndIgnoresSaveError ==
    /\ pc = "sess_end"
    /\ \E ok \in BOOLEAN :
         LET s == IF outcome.status = "ok" THEN complete(session)
                  ELSE set_error(session, OutcomeError)
         IN  /\ session' = s
             /\ saves' = Append(saves, SaveRecord(s, ok))
             /\ store' = IF ok THEN Save(s) ELSE store
             /\ chan' = IF ok /\ outcome.status = "ok"
                        THEN emit(chan, Ev("SessionSaved", ToString(s.id)))
                        ELSE chan
             /\ UNCHANGED outcome
    /\ pc' = "run_end"
    /\ UNCHANGED <<cfgVars, unitVars, pipeVars, loopVars, gateVars, closed, tx_alive,
                   rcReceived, portable, imported>>

\* execute_with_session after execute_pipeline: `match result`
SessEnd ==
    /\ pc = "sess_end"
    /\ \E ok \in BOOLEAN :
         IF outcome.status = "ok"
         THEN LET s == complete(session)
              IN  /\ session' = s
                  /\ saves' = Append(saves, SaveRecord(s, ok))
                  /\ IF ok
                     THEN /\ store' = Save(s)
                          /\ chan' = emit(chan, Ev("SessionSaved", ToString(s.id)))
                          /\ UNCHANGED outcome
                     ELSE /\ outcome' = ErrOutcome("storage", <<"failed to save session">>)
                          /\ UNCHANGED <<store, chan>>
         ELSE LET s == set_error(session, OutcomeError)
              IN  /\ session' = s
                  /\ saves' = Append(saves, SaveRecord(s, ok))
                  /\ store' = IF ok THEN Save(s) ELSE store
                  /\ UNCHANGED <<outcome, chan>>
    /\ pc' = "run_end"
    /\ UNCHANGED <<cfgVars, unitVars, pipeVars, loopVars, gateVars, closed, tx_alive,
                   rcReceived, portable, imported>>

\* DevKiller::export_session
ExportSession ==
    /\ pc = "s_idle"
    /\ portable = NoDocument
    /\ \E id \in DOMAIN store, loads \in BOOLEAN :
         IF loads
         THEN /\ portable' = from_session(Load(id))
              /\ UNCHANGED <<pc, outcome>>
         ELSE /\ outcome' = ErrOutcome("session", <<"failed to load session">>)
              /\ pc' = "returned_err"
              /\ UNCHANGED portable
    /\ UNCHANGED <<cfgVars, unitVars, pipeVars, loopVars, gateVars, chanVars,
                   session, store, saves, imported>>

\* DevKiller::import_session
ImportSession ==
    /\ pc = "s_idle"
    /\ portable # NoDocument
    /\ imported = 0
    /\ LET s == into_session(portable)
       IN  \E ok \in BOOLEAN :
             IF ok
             THEN /\ store' = Save(s)
                  /\ imported' = s.id
                  /\ UNCHANGED <<pc, outcome>>
             ELSE /\ outcome' = ErrOutcome("storage", <<"failed to save imported session">>)
                  /\ pc' = "returned_err"
                  /\ UNCHANGED <<store, imported>>
    /\ UNCHANGED <<cfgVars, unitVars, pipeVars, loopVars, gateVars, chanVars,
                   session, saves, portable>>

\* the caller of the earlier Executor creates the session it passes to
\* run_with_session
LegacyNewSession ==
    /\ pc = "Ls_idle"
    /\ session' = NewSession("task")
    /\ pc' = "L_sess_begin"
    /\ UNCHANGED <<cfgVars, unitVars, outcome, pipeVars, loopVars, gateVars, chanVars,
                   store, saves, portable, imported>>

\* Executor::resume_session up to run_with_session
LegacyResume ==
    /\ pc = "Ls_idle"
    /\ \E id \in DOMAIN store \cup {NewId}, loads \in BOOLEAN :
         LET loaded == Load(id)
         IN  IF ~loads
             THEN /\ outcome' = ErrOutcome("storage", <<"load failed">>)
                  /\ pc' = "L_returned_err"
                  /\ UNCHANGED session
             ELSE IF loaded = NoSession
             THEN /\ outcome' = ErrOutcome("error", <<"session not found: ", ToString(id)>>)
                  /\ pc' = "L_returned_err"
                  /\ UNCHANGED session
             ELSE IF ~can_resume(loaded)
             THEN /\ outcome' = ErrOutcome("error",
                                   <<"session cannot be resumed (status: ",
                                     loaded.status, ")">>)
                  /\ pc' = "L_returned_err"
                  /\ UNCHANGED session
             ELSE /\ session' = loaded
                  /\ pc' = "L_sess_begin"
                  /\ UNCHANGED outcome
    /\ UNCHANGED <<cfgVars, unitVars, pipeVars, loopVars, gateVars, chanVars,
                   store, saves, portable, imported>>

\* Executor::run_with_session up to agent.run
LegacyRunWithSession ==
    /\ pc = "L_sess_begin"
    /\ LET s == [session EXCEPT !.status = "InProgress", !.phase = "Planning"]
       IN  /\ session' = s
           /\ \E ok \in BOOLEAN :
                /\ saves' = Append(saves, SaveRecord(s, ok))
                /\ IF ok
                   THEN /\ store' = Save(s)
                        /\ pc' = "L_start"
                        /\ UNCHANGED outcome
                   ELSE /\ outcome' = ErrOutcome("storage", <<"save failed">>)
                        /\ pc' = "L_done"
                        /\ UNCHANGED store
    /\ UNCHANGED <<cfgVars, unitVars, pipeVars, loopVars, gateVars, chanVars,
                   portable, imported>>

\* Executor::run_with_session after agent.run: `match agent.run(..)`, where
\* every save is followed by `?`
LegacySessEnd ==
    /\ pc = "L_sess_end"
    /\ \E ok \in BOOLEAN :
         LET s == IF outcome.status = "ok" THEN complete(session)
                  ELSE set_error(session, OutcomeError)
         IN  /\ session' = s
             /\ saves' = Append(saves, SaveRecord(s, ok))
             /\ IF ok
                THEN /\ store' = Save(s)
                     /\ UNCHANGED outcome
                ELSE /\ outcome' = ErrOutcome("storage", <<"save failed">>)
                     /\ UNCHANGED store
    /\ pc' = "L_done"
    /\ UNCHANGED <<cfgVars, unitVars, pipeVars, loopVars, gateVars, chanVars,
                   portable, imported>>

SessionNext ==
    \/ SessRun \/ SessResume \/ SessBegin \/ SessEnd
    \/ ExportSession \/ ImportSession
    \/ RunStart \/ LoopHead \/ Sleep \/ LlmFails \/ LlmFinal \/ LlmTools
    \/ ToolCallBegin \/ ToolExecute \/ RunEnd
    \/ LegacyNewSession \/ LegacyResume \/ LegacyRunWithSession \/ LegacySessEnd
    \/ LegacyStart \/ LegacyLoopHead \/ LegacyLlmFails \/ LegacyLlmFinal
    \/ LegacyLlmTools \/ LegacyToolExecute

SessionSpec == SessionInit /\ [][SessionNext]_vars

(***************************************************************************)
(* Custom pipelines without a review step (Pipeline::custom), the empty    *)
(* list of steps among them.                                               *)
(***************************************************************************)
\* Pipeline::custom(steps)
CustomPipeline(steps) == [steps |-> steps, max_review_iterations |-> MAX_REVIEW_ITERATIONS]
NoReviewPipelines ==
    {CustomPipeline(st) : st \in {<<>>, <<CodeStep(1)>>, <<PlanStep(1), CodeStep(MaxIter)>>,
                                  <<PlanStep(1), CodeStep(1), TestStep(1)>>,
                                  <<CodeStep(1), CodeStep(1)>>}}

PipelineInit == InitWith(NoReviewPipelines, {"AutoApprove"}, {"never"})

\* the spawned task of DevKiller::run panicked inside execute_pipeline
\* (`pipeline.steps[steps_before_review - 1]` without steps): the task is
\* unwound, its EventSender is dropped and no RunCompleted is emitted
TaskPanicked ==
    /\ pc = "panicked"
    /\ tx_alive' = FALSE
    /\ pc' = "aborted"
    /\ UNCHANGED <<cfgVars, unitVars, sessVars, outcome, pipeVars, loopVars, gateVars, chan,
                   closed, rcReceived>>

PipelineNext ==
    \/ RunStart \/ LoopHead \/ Sleep \/ LlmFails \/ LlmFinal \/ LlmTools
    \/ ToolCallBegin \/ ToolExecute \/ RunEnd \/ TaskPanicked

PipelineSpec == PipelineInit /\ [][PipelineNext]_vars

(***************************************************************************)
(* Custom pipelines of any shape: steps listed after the review step, a    *)
(* second review-flagged step, a review step that comes first, a review    *)
(* loop of no iterations, and no steps at all.                             *)
(***************************************************************************)
\* a custom step flagged as a review step (PipelineStep { is_review: true })
AuditStep(b) == [ReviewStep(b) EXCEPT !.name = "auditor"]
CustomStepLists ==
    {<<>>, <<CodeStep(MaxIter)>>,
     <<CodeStep(1), ReviewStep(1)>>,
     <<CodeStep(1), ReviewStep(1), TestStep(1)>>,
     <<ReviewStep(1), CodeStep(1)>>,
     <<PlanStep(1), ReviewStep(1), CodeStep(1), AuditStep(1)>>}
\* Pipeline::custom(steps), with or without with_max_review_iterations(m)
CustomPipelines ==
    {CustomPipeline(st) : st \in CustomStepLists}
    \cup {[steps |-> st, max_review_iterations |-> m] :
             st \in CustomStepLists, m \in 0..MaxReview}

CustomInit == InitWith(CustomPipelines, {"AutoApprove"}, {"never"})

CustomSpec == CustomInit /\ [][PipelineNext]_vars

(***************************************************************************)
(* The default pipeline and OrchestratorAgent::run side by side: a run is  *)
(* one of the two, started on the same task.                               *)
(***************************************************************************)
BothInit ==
    \/ InitWith({DefaultPipeline(b, MAX_REVIEW_ITERATIONS) : b \in 1..MaxIter},
                {"AutoApprove"}, {"never"})
    \/ LegacyInit

BothNext ==
    \/ RunStart \/ LoopHead \/ Sleep \/ LlmFails \/ LlmFinal \/ LlmTools
    \/ ToolCallBegin \/ ToolExecute \/ RunEnd
    \/ LegacyNext

BothSpec == BothInit /\ [][BothNext]_vars

(***************************************************************************)
(* The tools' validators and other units, applied to inputs drawn from     *)
(* bounded sets.  A string is the sequence of its parts: separators and    *)
(* atoms that stand for runs of characters.  A canonical path is the       *)
(* sequence of its components, a component a sequence of atoms.            *)
(***************************************************************************)
\* a is a prefix of b
IsPrefix(a, b) == Len(a) <= Len(b) /\ \A i \in 1..Len(a) : a[i] = b[i]
\* s.contains(part) and s.ends_with(suffix) on strings; IsPrefix(prefix, s)
\* is s.starts_with(prefix)
Contains(s, part) ==
    \E i \in 0..(Len(s) - Len(part)) : SubSeq(s, i + 1, i + Len(part)) = part
EndsWith(s, suffix) ==
    Len(suffix) <= Len(s) /\ SubSeq(s, Len(s) - Len(suffix) + 1, Len(s)) = suffix

\* Path::components: the kind of one part of the input path
Component(part) ==
    CASE part = ".." -> "ParentDir"
      [] part = "." -> "CurDir"
      [] OTHER -> "Normal"
\* whether the characters of a part include two consecutive dots
HasTwoDots(part) == part \in {"..", "data..backup.txt"}

RECURSIVE to_string_lossy(_)
\* canonical.to_string_lossy(): the components joined after "/"
to_string_lossy(canonical) ==
    IF canonical = <<>> THEN <<>>
    ELSE <<"/">> \o Head(canonical) \o to_string_lossy(Tail(canonical))

\* the result of a validator
Ok(value) == [ok |-> TRUE, value |-> value, fs |-> TRUE]
Err(text, fs) == [ok |-> FALSE, value |-> <<text>>, fs |-> fs]
Unresolvable == <<<<"?">>>>

\* check_hardcoded_path_denials: "" when nothing is denied
check_hardcoded_path_denials(canonical, path_str, home) ==
    LET under(dir) == home # <<>> /\ IsPrefix(home \o dir, canonical)
        top(name) == IsPrefix(<<"/">> \o name \o <<"/">>, path_str)
                     \/ path_str = <<"/">> \o name
        file_name == canonical[Len(canonical)]
    IN  IF top(<<"etc">>) \/ top(<<"private", "/", "etc">>) THEN "/etc"
        ELSE IF under(<<<<".ssh">>>>) THEN "~/.ssh"
        ELSE IF under(<<<<".gnupg">>>>) THEN "~/.gnupg"
        ELSE IF under(<<<<".aws">>>>) THEN "~/.aws"
        ELSE IF under(<<<<".config">>>>) /\ ~under(<<<<".config">>, <<"dev-killer">>>>)
             THEN "~/.config"
        ELSE IF Contains(path_str, <<"/", ".git", "/">>) \/ EndsWith(path_str, <<"/", ".git">>)
             THEN ".git"
        ELSE IF top(<<"proc">>) THEN "/proc"
        ELSE IF top(<<"sys">>) THEN "/sys"
        ELSE IF top(<<"dev">>) THEN "/dev"
        ELSE IF top(<<"var", "/", "log">>) THEN "/var/log"
        ELSE IF canonical # <<>>
                /\ (file_name = <<".env">> \/ IsPrefix(<<".env", ".">>, file_name))
             THEN ".env"
        ELSE ""

\* variant: the deny list and the fixed denials are consulted before the
\* allow list
validate_path_deny_first(path, policy, canon, home) ==
    IF \E i \in 1..Len(path) : Component(path[i]) = "ParentDir"
    THEN Err("path traversal detected", FALSE)
    ELSE IF canon = Unresolvable THEN Err("failed to resolve path", TRUE)
    ELSE LET path_str == to_string_lossy(canon)
         IN  IF \E denied \in policy.deny_paths : IsPrefix(denied, path_str)
             THEN Err("denied by policy", TRUE)
             ELSE IF check_hardcoded_path_denials(canon, path_str, home) # ""
             THEN Err(check_hardcoded_path_denials(canon, path_str, home), TRUE)
             ELSE Ok(canon)
\* validate_path of dev-killer; `canon` is what std::fs::canonicalize (or
\* the fallback on the parent directory) makes of the path, Unresolvable
\* when both fail
validate_path(path, policy, canon, home) ==
    IF \E i \in 1..Len(path) : Component(path[i]) = "ParentDir"
    THEN Err("path traversal detected", FALSE)
    ELSE IF canon = Unresolvable THEN Err("failed to resolve path", TRUE)
    ELSE LET path_str == to_string_lossy(canon)
             explicitly_allowed ==
                 \E allowed \in policy.allow_paths : IsPrefix(allowed, path_str)
         IN  IF ~explicitly_allowed
                /\ \E denied \in policy.deny_paths : IsPrefix(denied, path_str)
             THEN Err("denied by policy", TRUE)
             ELSE IF ~explicitly_allowed
                     /\ check_hardcoded_path_denials(canon, path_str, home) # ""
             THEN Err(check_hardcoded_path_denials(canon, path_str, home), TRUE)
             ELSE Ok(canon)
\* validate_path of the earlier tools: `path.contains("..")`, no policy, and
\* no exception for ~/.config/dev-killer
legacy_validate_path(path, canon, home) ==
    IF \E i \in 1..Len(path) : HasTwoDots(path[i])
    THEN Err("path traversal detected", FALSE)
    ELSE IF canon = Unresolvable THEN Err("failed to resolve path", TRUE)
    ELSE LET path_str == to_string_lossy(canon)
             denial == check_hardcoded_path_denials(canon, path_str, home)
         IN  IF home # <<>> /\ IsPrefix(home \o <<<<".config">>>>, canon)
             THEN Err("~/.config", TRUE)
             ELSE IF denial # "" THEN Err(denial, TRUE)
             ELSE Ok(canon)

\* input paths, as the parts between their separators
InputPaths ==
    {<<"proj", "file.txt">>, <<"proj", "..", "etc", "passwd">>,
     <<"..", "secret">>, <<"proj", "data..backup.txt">>, <<".", "proj", ".env">>}
Home == <<<<"home">>, <<"u">>>>
\* what the paths may resolve to
CanonicalPaths ==
    {Unresolvable,
     Home \o <<<<"proj">>, <<"file.txt">>>>,
     Home \o <<<<"proj">>, <<"data..backup.txt">>>>,
     Home \o <<<<"proj">>, <<".env">>>>,
     Home \o <<<<"proj", "ect">>, <<".env", ".", "local">>>>,
     Home \o <<<<"proj">>, <<".git">>, <<"config">>>>,
     Home \o <<<<".ssh">>, <<"id_rsa">>>>,
     Home \o <<<<".config">>, <<"dev-killer">>, <<"config.toml">>>>,
     Home \o <<<<".config">>, <<"gh">>>>,
     <<<<"etc">>, <<"passwd">>>>,
     <<<<"etc", "etera">>, <<"notes">>>>}
\* the path lists of a Policy
PathPolicies ==
    [allow_paths : SUBSET {to_string_lossy(Home \o <<<<"proj">>>>), <<"/", "etc", "/">>},
     deny_paths : SUBSET {to_string_lossy(Home), to_string_lossy(Home \o <<<<"proj">>, <<"file.txt">>>>)}]
PathInputs ==
    [path : InputPaths, policy : PathPolicies, canon : CanonicalPaths,
     home : {<<>>, Home}]

\* command.to_lowercase()
to_lowercase(s) == [i \in 1..Len(s) |-> ToLower(s[i])]
\* the fixed patterns of validate_command and the lists of
\* validate_sensitive_paths, each entry one part of a command
dangerous_patterns ==
    {<<"rm -rf /">>, <<"rm -rf /*">>, <<"rm -rf ~">>, <<"rm -rf $HOME">>,
     <<":(){:|:&};:">>, <<"mkfs.">>, <<"dd if=/dev/zero">>, <<"dd if=/dev/random">>,
     <<"> /dev/sda">>, <<"chmod -R 777 /">>, <<"chown -R">>, <<"sudo rm">>,
     <<"sudo dd">>, <<"sudo mkfs">>}
sensitive_paths ==
    {<<"/etc/">>, <<"/private/etc/">>, <<"/proc/">>, <<"/sys/">>, <<"/dev/">>,
     <<"/var/log/">>, <<"~/.ssh">>, <<"$HOME/.ssh">>, <<"~/.gnupg">>,
     <<"$HOME/.gnupg">>, <<"~/.aws">>, <<"$HOME/.aws">>, <<"~/.config">>,
     <<"$HOME/.config">>}
read_commands ==
    {<<"cat ">>, <<"head ">>, <<"tail ">>, <<"less ">>, <<"more ">>, <<"vim ">>,
     <<"nano ">>, <<"vi ">>}

\* validate_sensitive_paths: "" when the command is let through
validate_sensitive_paths(command) ==
    IF \E sensitive \in sensitive_paths :
           /\ Contains(command, sensitive)
           /\ \/ \E read_cmd \in read_commands : Contains(command, read_cmd)
              \/ Contains(command, <<"<", " ">> \o sensitive)
              \/ Contains(command, <<"<">> \o sensitive)
    THEN "access to sensitive path via shell is not allowed"
    ELSE IF /\ Contains(command, <<".env">>)
            /\ \E read_cmd \in read_commands : Contains(command, read_cmd)
    THEN "access to .env files via shell is not allowed"
    ELSE ""

\* variant: a command that contains an entry of allow_commands is let
\* through
validate_command_allow_listed(command, policy) ==
    LET command_lower == to_lowercase(command)
    IN  IF \E allowed \in policy.allow_commands :
               Contains(command_lower, to_lowercase(allowed))
        THEN Ok(<<>>)
        ELSE IF \E denied \in policy.deny_commands :
                    Contains(command_lower, to_lowercase(denied))
        THEN Err("command is denied by policy", FALSE)
        ELSE IF \E pattern \in dangerous_patterns :
                    Contains(command_lower, to_lowercase(pattern))
        THEN Err("command contains dangerous pattern", FALSE)
        ELSE IF validate_sensitive_paths(command) # ""
        THEN Err(validate_sensitive_paths(command), FALSE)
        ELSE Ok(<<>>)
\* validate_command
validate_command(command, policy) ==
    LET command_lower == to_lowercase(command)
    IN  IF \E denied \in policy.deny_commands :
               Contains(command_lower, to_lowercase(denied))
        THEN Err("command is denied by policy", FALSE)
        ELSE IF \E pattern \in dangerous_patterns :
                    Contains(command_lower, to_lowercase(pattern))
        THEN Err("command contains dangerous pattern", FALSE)
        ELSE IF validate_sensitive_paths(command) # ""
        THEN Err(validate_sensitive_paths(command), FALSE)
        ELSE Ok(<<>>)

\* the parts commands are made of, and the commands up to MaxCmdLen parts
MaxCmdLen == 3
CommandParts ==
    {"git status", "git push", "GIT PUSH", "rm -rf /", "RM -RF /", "cat ",
     "CAT ", "sort ", "<", " ", "/etc/", "/ETC/", "~/.ssh", ".env"}
Commands == UNION {[1..n -> CommandParts] : n \in 0..MaxCmdLen}
\* the command lists of a Policy
CommandPolicies ==
    [deny_commands : SUBSET {<<"Git Push">>, <<"sort ", "x">>},
     allow_commands : SUBSET {<<"rm -rf /">>}]
CommandInputs == [command : Commands, policy : CommandPolicies]

\* review texts of up to MaxReviewLines lines
MaxReviewLines == 3
ReviewTextLines ==
    {<<"ok">>, <<"VERDICT:", " ", "APPROVED">>,
     <<" ", "verdict:", " ", "needs_work", " ">>, <<"looks", " ", "Approved">>,
     <<"fix", " ", "NEEDS_WORK">>, <<"VERDICT:", " ", "APPROVED", " ", "ok">>}
ReviewInputs ==
    [lines : UNION {[1..n -> ReviewTextLines] : n \in 0..MaxReviewLines}]

\* the operations made on one store: at most MaxOps of them, on the ids
\* 1..3, of which 3 is never saved
MaxOps == 4
StorageIds == {1, 2, 3}
StorageSessions ==
    {StoredSession("Pending", <<>>), StoredSession("Completed", StoredTranscript),
     [StoredSession("Interrupted", StoredTranscript) EXCEPT !.id = 2]}
\* the row of a session that Storage::list returns
Summary(id) ==
    [id |-> id, task |-> store[id].task, status |-> store[id].status,
     phase |-> store[id].phase, error |-> store[id].error]
Op(name, id, s) == [op |-> name, id |-> id, s |-> s]

\* the token channel of one streamed call holds TokenCap tokens
\* (TOKEN_CHANNEL_CAPACITY in the source); the provider's stream yields at
\* most MaxTokens text chunks
TokenCap == 2
MaxTokens == 3
Token(n) == ToString(n)
\* variant: a full token channel makes room by discarding its oldest token
try_send_overwrites(q, token) ==
    IF Len(q) >= TokenCap THEN Append(Tail(q), token) ELSE Append(q, token)
\* mpsc::Sender::try_send on the token channel: the token is dropped when
\* the channel is full
try_send(q, token) == IF Len(q) >= TokenCap THEN q ELSE Append(q, token)

\* retry_with_backoff.  Durations are whole units of time; the widths of
\* the source are scaled down: FactorMax stands for u32::MAX, DurationMax
\* for Duration::MAX.  A config has up to MaxRetries retries.
MaxRetries == 4
FactorMax == 7
DurationMax == 31
RECURSIVE Pow2(_)
Pow2(n) == IF n = 0 THEN 1 ELSE 2 * Pow2(n - 1)
Min(a, b) == IF a <= b THEN a ELSE b
\* 2u32.saturating_pow(attempt)
saturating_pow2(attempt) == Min(Pow2(attempt), FactorMax)
\* `self.base_delay * factor` panics when the product is no Duration
MulOverflows(config, attempt) ==
    config.base_delay * saturating_pow2(attempt) > DurationMax
\* RetryConfig::delay_for_attempt, when the product is a Duration
delay_for_attempt(config, attempt) ==
    Min(config.base_delay * saturating_pow2(attempt), config.max_delay)
RetryConfigs ==
    [max_retries : 0..MaxRetries, base_delay : {0, 1, 2, 5},
     max_delay : {0, 3, DurationMax}]
OperationErrors == {"connection refused", "invalid api key"}

\* two runs of one DevKiller that share its store: `arg` holds what each of
\* them has in hand, `ret` the saves made, each with the run that made it and
\* the number of saves that preceded the run's load of the session
SharedRuns == {1, 2}
IdleRun == [at |-> "idle", session |-> NoSession, loaded |-> 0]
SavedBy(r, s, ok) ==
    [run |-> r, id |-> s.id, status |-> s.status, error |-> s.error, ok |-> ok,
     loaded |-> arg[r].loaded]

UnitInit ==
    /\ pipeline = SimplePipeline(1)
    /\ approval_mode = "AutoApprove"
    /\ outcome = [status |-> "none", out |-> PlainOutput(NoOutput)]
    /\ stage = "pre" /\ idx = 0 /\ cur = 0 /\ review_iteration = 0
    /\ context = EmptyContext
    /\ stepLog = <<>> /\ verdicts = <<>>
    /\ iteration = 0 /\ messages = <<>> /\ response = NoOutput
    /\ tool_calls = <<>> /\ tool_results = <<>> /\ k = 0
    /\ llm_calls = 0 /\ executed = <<>>
    /\ always_approved = {} /\ slot = "none" /\ held = FALSE /\ waited = 0
    /\ answeredAlways = {} /\ askedNow = FALSE
    /\ chan = <<>> /\ closed = FALSE /\ tx_alive = TRUE /\ rcReceived = 0
    /\ session = NoSession /\ saves = <<>>
    /\ portable = NoDocument /\ imported = 0
    /\ ret = <<>>
    /\ \/ /\ consumer = "never" /\ stream = <<>>
          /\ \/ pc \in {"validate_path", "legacy_validate_path"} /\ arg \in PathInputs
             \/ pc = "validate_command" /\ arg \in CommandInputs
             \/ pc \in {"parse_review", "legacy_parse_review"} /\ arg \in ReviewInputs
             \/ pc = "storage" /\ arg = <<>>
       \/ /\ consumer \in {"never", "responsive"} /\ stream = <<>>
          /\ pc = "call_llm_streaming" /\ arg = <<>>
       \/ /\ consumer = "never" /\ stream = <<>>
          /\ pc = "shared_store" /\ arg = [r \in SharedRuns |-> IdleRun]
       \/ /\ consumer = "never"
          /\ pc = "retry_attempt" /\ arg \in RetryConfigs
          /\ stream = [attempt |-> 0, calls |-> 0, delays |-> <<>>,
                       last_error |-> <<>>]
    /\ IF pc = "shared_store"
       THEN \E st \in {"Pending", "Interrupted", "Completed"} :
                store = [i \in {1} |-> SessionToJson(StoredSession(st, <<>>))]
       ELSE store = <<>>

\* a file tool validates the path it was given
ValidatePath ==
    /\ pc = "validate_path"
    /\ ret' = validate_path(arg.path, arg.policy, arg.canon, arg.home)
    /\ pc' = "returned"
    /\ UNCHANGED <<cfgVars, sessVars, outcome, pipeVars, loopVars, gateVars,
                   chanVars, arg, stream>>

\* a file tool of the earlier engine validates the path it was given
LegacyValidatePath ==
    /\ pc = "legacy_validate_path"
    /\ ret' = legacy_validate_path(arg.path, arg.canon, arg.home)
    /\ pc' = "legacy_returned"
    /\ UNCHANGED <<cfgVars, sessVars, outcome, pipeVars, loopVars, gateVars,
                   chanVars, arg, stream>>

\* ShellTool::execute validates the command it was given
ValidateCommand ==
    /\ pc = "validate_command"
    /\ ret' = validate_command(arg.command, arg.policy)
    /\ pc' = "command_returned"
    /\ UNCHANGED <<cfgVars, sessVars, outcome, pipeVars, loopVars, gateVars,
                   chanVars, arg, stream>>

\* execute_pipeline reads the verdict of the review step's output
ParseReview ==
    /\ pc = "parse_review"
    /\ ret' = [approved |-> is_review_approved(arg)]
    /\ pc' = "review_parsed"
    /\ UNCHANGED <<cfgVars, sessVars, outcome, pipeVars, loopVars, gateVars,
                   chanVars, arg, stream>>

\* OrchestratorAgent::run reads the verdict of the reviewer's output
LegacyParseReview ==
    /\ pc = "legacy_parse_review"
    /\ ret' = [approved |-> LegacyApproved(arg)]
    /\ pc' = "legacy_review_parsed"
    /\ UNCHANGED <<cfgVars, sessVars, outcome, pipeVars, loopVars, gateVars,
                   chanVars, arg, stream>>

\* SqliteStorage::save; `arg` is the list of the operations made so far
StorageSave ==
    /\ pc = "storage" /\ Len(arg) < MaxOps
    /\ \E s \in StorageSessions :
        \/ /\ store' = Save(s)
           /\ ret' = [ok |-> TRUE, value |-> <<>>]
           /\ arg' = Append(arg, Op("save", s.id, s))
        \/ /\ store' = store
           /\ ret' = [ok |-> FALSE, value |-> <<"failed to save session">>]
           /\ arg' = Append(arg, Op("save failed", s.id, s))
    /\ UNCHANGED <<cfgVars, pc, outcome, pipeVars, loopVars, gateVars, chanVars,
                   session, saves, portable, imported, stream>>

\* SqliteStorage::load
StorageLoad ==
    /\ pc = "storage" /\ Len(arg) < MaxOps
    /\ \E id \in StorageIds :
        /\ ret' = [ok |-> TRUE, value |-> Load(id)]
        /\ arg' = Append(arg, Op("load", id, NoSession))
    /\ UNCHANGED <<cfgVars, sessVars, pc, outcome, pipeVars, loopVars, gateVars,
                   chanVars, stream>>

\* SqliteStorage::delete
StorageDelete ==
    /\ pc = "storage" /\ Len(arg) < MaxOps
    /\ \E id \in StorageIds :
        /\ store' = [i \in DOMAIN store \ {id} |-> store[i]]
        /\ ret' = IF id \in DOMAIN store THEN [ok |-> TRUE, value |-> <<>>]
                  ELSE [ok |-> FALSE, value |-> <<"session not found">>]
        /\ arg' = Append(arg, Op("delete", id, NoSession))
    /\ UNCHANGED <<cfgVars, pc, outcome, pipeVars, loopVars, gateVars, chanVars,
                   session, saves, portable, imported, stream>>

\* SqliteStorage::list
StorageList ==
    /\ pc = "storage" /\ Len(arg) < MaxOps
    /\ ret' = [ok |-> TRUE, value |-> {Summary(id) : id \in DOMAIN store}]
    /\ arg' = Append(arg, Op("list", 0, NoSession))
    /\ UNCHANGED <<cfgVars, sessVars, pc, outcome, pipeVars, loopVars, gateVars,
                   chanVars, stream>>

\* call_llm_streaming creates the token channel and spawns the forwarder
CallLlmStreaming ==
    /\ pc = "call_llm_streaming"
    /\ stream' = [provider |-> "running", produced |-> 0, accepted |-> <<>>,
                  tokens |-> <<>>, sender |-> TRUE, forwarded |-> <<>>,
                  forwarder |-> "running"]
    /\ pc' = "chat_stream"
    /\ UNCHANGED <<cfgVars, sessVars, outcome, pipeVars, loopVars, gateVars,
                   chanVars, arg, ret>>

\* chat_stream_impl: a text chunk arrives and is offered to the token channel
ProviderToken ==
    /\ pc = "chat_stream"
    /\ stream.produced < MaxTokens
    /\ LET token == Token(stream.produced + 1)
           q == try_send(stream.tokens, token)
       IN  stream' = [stream EXCEPT !.produced = @ + 1, !.tokens = q,
                                    !.accepted = IF q = stream.tokens THEN @
                                                 ELSE Append(@, token)]
    /\ UNCHANGED <<cfgVars, sessVars, pc, outcome, pipeVars, loopVars, gateVars,
                   chanVars, arg, ret>>

\* chat_stream returns the response or an error; its token sender is dropped
ProviderReturns ==
    /\ pc = "chat_stream"
    /\ \E r \in {"ok", "err"} :
        /\ stream' = [stream EXCEPT !.provider = r, !.sender = FALSE]
        /\ ret' = [ok |-> r = "ok", value |-> stream.produced]
    /\ pc' = "forwarder_await"
    /\ UNCHANGED <<cfgVars, sessVars, outcome, pipeVars, loopVars, gateVars,
                   chanVars, arg>>

\* the forwarder receives a token and passes it to emit_token
ForwarderRecv ==
    /\ pc \in {"chat_stream", "forwarder_await"}
    /\ stream.forwarder = "running"
    /\ stream.tokens # <<>>
    /\ stream' = [stream EXCEPT !.tokens = Tail(@),
                                !.forwarded = Append(@, Head(stream.tokens))]
    /\ chan' = emit(chan, Ev("LlmToken", Head(stream.tokens)))
    /\ UNCHANGED <<cfgVars, sessVars, pc, outcome, pipeVars, loopVars, gateVars,
                   closed, tx_alive, rcReceived, arg, ret>>

\* token_rx.recv() returns None: the channel is empty and its sender dropped
ForwarderExit ==
    /\ pc \in {"chat_stream", "forwarder_await"}
    /\ stream.forwarder = "running"
    /\ stream.tokens = <<>> /\ ~stream.sender
    /\ stream' = [stream EXCEPT !.forwarder = "finished"]
    /\ UNCHANGED <<cfgVars, sessVars, pc, outcome, pipeVars, loopVars, gateVars,
                   chanVars, arg, ret>>

\* `forwarder.await` completes and call_llm_streaming returns the response
ForwarderJoined ==
    /\ pc = "forwarder_await"
    /\ stream.forwarder = "finished"
    /\ pc' = "stream_returned"
    /\ UNCHANGED <<cfgVars, sessVars, outcome, pipeVars, loopVars, gateVars,
                   chanVars, unitVars>>

\* retry_with_backoff: one pass of `for attempt in 0..=config.max_retries`,
\* the operation succeeding
RetryAttemptOk ==
    /\ pc = "retry_attempt"
    /\ stream' = [stream EXCEPT !.calls = @ + 1]
    /\ ret' = [ok |-> TRUE, value |-> <<"result", stream.calls + 1>>]
    /\ pc' = "retry_returned"
    /\ UNCHANGED <<cfgVars, sessVars, outcome, pipeVars, loopVars, gateVars,
                   chanVars, arg>>

\* one pass, the operation failing: sleep and go on, or leave the loop and
\* return the last error
RetryAttemptErr ==
    /\ pc = "retry_attempt"
    /\ \E e \in OperationErrors :
        LET err == <<e, stream.calls + 1>>
        IN  IF stream.attempt < arg.max_retries
            THEN IF MulOverflows(arg, stream.attempt)
                 THEN /\ stream' = [stream EXCEPT !.calls = @ + 1, !.last_error = err]
                      /\ ret' = ret
                      /\ pc' = "retry_panicked"
                 ELSE /\ stream' = [stream EXCEPT
                                       !.calls = @ + 1, !.last_error = err,
                                       !.delays = Append(@, delay_for_attempt(arg, stream.attempt)),
                                       !.attempt = @ + 1]
                      /\ ret' = ret
                      /\ pc' = "retry_attempt"
            ELSE /\ stream' = [stream EXCEPT !.calls = @ + 1, !.last_error = err]
                 /\ ret' = [ok |-> FALSE, value |-> err]
                 /\ pc' = "retry_returned"
    /\ UNCHANGED <<cfgVars, sessVars, outcome, pipeVars, loopVars, gateVars,
                   chanVars, arg>>

\* DevKiller::run of run r: a new session
SharedRun(r) ==
    /\ pc = "shared_store" /\ arg[r].at = "idle"
    /\ LET ids == DOMAIN store \cup {arg[q].session.id : q \in SharedRuns}
           id == 1 + CHOOSE m \in ids : \A i \in ids : i <= m
       IN  arg' = [arg EXCEPT ![r] = [at |-> "begin", loaded |-> Len(ret),
                                      session |-> [NoSession EXCEPT !.id = id,
                                                                    !.task = "task"]]]
    /\ UNCHANGED <<cfgVars, sessVars, pc, outcome, pipeVars, loopVars, gateVars,
                   chanVars, ret, stream>>

\* DevKiller::resume of run r: load, can_resume
SharedResume(r) ==
    /\ pc = "shared_store" /\ arg[r].at = "idle"
    /\ \E id \in DOMAIN store :
        arg' = [arg EXCEPT ![r] =
                  IF can_resume(Load(id))
                  THEN [at |-> "begin", session |-> Load(id), loaded |-> Len(ret)]
                  ELSE [at |-> "refused", session |-> NoSession, loaded |-> Len(ret)]]
    /\ UNCHANGED <<cfgVars, sessVars, pc, outcome, pipeVars, loopVars, gateVars,
                   chanVars, ret, stream>>

\* execute_with_session of run r up to the pipeline: InProgress, Planning,
\* save
SharedBegin(r) ==
    /\ pc = "shared_store" /\ arg[r].at = "begin"
    /\ LET s == [arg[r].session EXCEPT !.status = "InProgress", !.phase = "Planning"]
       IN  \E ok \in BOOLEAN :
             /\ store' = IF ok THEN Save(s) ELSE store
             /\ ret' = Append(ret, SavedBy(r, s, ok))
             /\ arg' = [arg EXCEPT ![r].session = s,
                                   ![r].at = IF ok THEN "pipeline" ELSE "failed"]
    /\ UNCHANGED <<cfgVars, pc, outcome, pipeVars, loopVars, gateVars, chanVars,
                   session, saves, portable, imported, stream>>

\* execute_with_session of run r after the pipeline returned: complete or
\* set_error, save
SharedEnd(r) ==
    /\ pc = "shared_store" /\ arg[r].at = "pipeline"
    /\ \E done \in BOOLEAN, ok \in BOOLEAN :
        LET s == IF done THEN complete(arg[r].session)
                 ELSE set_error(arg[r].session, LlmFailedText("planner"))
        IN  /\ store' = IF ok THEN Save(s) ELSE store
            /\ ret' = Append(ret, SavedBy(r, s, ok))
            /\ arg' = [arg EXCEPT ![r].session = s,
                                  ![r].at = IF done /\ ok THEN "succeeded" ELSE "failed"]
    /\ UNCHANGED <<cfgVars, pc, outcome, pipeVars, loopVars, gateVars, chanVars,
                   session, saves, portable, imported, stream>>

UnitNext ==
    \/ \E r \in SharedRuns :
          SharedRun(r) \/ SharedResume(r) \/ SharedBegin(r) \/ SharedEnd(r)
    \/ RetryAttemptOk \/ RetryAttemptErr
    \/ CallLlmStreaming \/ ProviderToken \/ ProviderReturns
    \/ ForwarderRecv \/ ForwarderExit \/ ForwarderJoined \/ Recv
    \/ ValidatePath \/ LegacyValidatePath
    \/ ValidateCommand
    \/ ParseReview \/ LegacyParseReview
    \/ StorageSave \/ StorageLoad \/ StorageDelete \/ StorageList

UnitSpec == UnitInit /\ [][UnitNext]_vars

(***************************************************************************)
(* Properties.                                                             *)
(***************************************************************************)
CurTool == tool_calls[k].name
CurAllowed == Steps[cur].allowed_tools
Handled == 1..Len(tool_results)
ResultText(i) == tool_results[i][2]
Finished == pc \in {"run_end", "done"}

\* C1: in a step (or agent) that restricts the model to an allow-list, a
\* requested call whose tool is outside the list is never executed, and its
\* result is the "not available to this agent" text.
C1_AllowListEnforced ==
    \A i \in Handled :
        ~AllowedByFilter(CurAllowed, tool_calls[i].name) =>
            /\ ~executed[i]
            /\ ResultText(i) = NotAvailableText(tool_calls[i].name)

\* the run left the wait for the approval reply of call k with a denial
DeniedWith(text) ==
    /\ tool_results' = Append(tool_results, <<tool_calls[k].id, text>>)
    /\ executed' = Append(executed, FALSE)
    /\ IF k < Len(tool_calls)
       THEN pc' = "call_begin" /\ k' = k + 1 /\ iteration' = iteration
       ELSE pc' = "loop_head" /\ iteration' = iteration + 1

\* C2: when the run stops waiting for an approval reply, an Approve or
\* ApproveAlways reply sends the call on to execution; a Deny reply, a
\* dropped reply slot and the expiry of the 60 s timeout each leave the tool
\* unexecuted and make a denial text the result of the call, the three
\* texts being different; the loop goes on with the next call (or, after
\* the last call, the next iteration); an approved registered tool is
\* executed.
C2_ReplyOutcomes ==
    /\ [][(pc = "approval_wait" /\ pc' # "approval_wait") =>
            /\ slot \in {"Approve", "ApproveAlways"} =>
                    pc' = "exec" /\ tool_results' = tool_results /\ k' = k
            /\ slot = "Deny" => DeniedWith(DeniedByUserText(CurTool, DenyReason))
            /\ slot = "dropped" => DeniedWith(DeniedNoResponseText(CurTool))
            /\ slot = "waiting" =>
                    /\ waited = APPROVAL_TIMEOUT_SECS
                    /\ DeniedWith(DeniedTimeoutText(CurTool))
            /\ DeniedByUserText(CurTool, DenyReason) # DeniedNoResponseText(CurTool)
            /\ DeniedByUserText(CurTool, DenyReason) # DeniedTimeoutText(CurTool)
            /\ DeniedNoResponseText(CurTool) # DeniedTimeoutText(CurTool)]_vars
    /\ [][(pc = "exec" /\ pc' # "exec" /\ CurTool \in RegisteredTools) =>
            executed' = Append(executed, TRUE)]_vars

\* C2 witness: a call was denied by the timeout, stayed unexecuted, and the
\* next call of the same response has been handled after it
C2_Witness ==
    \E i \in Handled :
        /\ ResultText(i) = DeniedTimeoutText(tool_calls[i].name)
        /\ ~executed[i]
        /\ i < Len(tool_results)

\* C3: once an ApproveAlways reply for a tool has been delivered, no
\* approval request is sent for that tool again in the run: the gate never
\* gets to the point of sending, or waiting for, a request for it.
C3_ApproveAlwaysIdempotent ==
    [][(pc' \in {"approval_send", "approval_wait"} /\ pc' # pc) =>
            tool_calls'[k'].name \notin answeredAlways']_vars

\* C3 witness: in the second step, a call to a tool that the mode asks
\* about goes to execution without a request, after ApproveAlways
C3_Witness ==
    /\ pc = "exec"
    /\ cur = 2
    /\ ~askedNow
    /\ CurTool \in answeredAlways
    /\ needs_approval(approval_mode, CurTool)

\* C4: a run whose caller keeps the handle but never receives from the
\* event channel is never blocked: until it has ended, the run always has
\* a step it can take (the caller takes none).
C4_NeverConsumedNeverBlocks ==
    consumer = "never" => (pc = "done" \/ ENABLED Next)

\* the run leaves the wait for an approval reply
LeavesWait == pc = "approval_wait" /\ pc' # "approval_wait"

\* C5 as stated: with a consumer that receives the approval requests and
\* never answers, every wait for a reply ends by the expiry of the 60 s
\* timeout and a timeout denial, and the run reaches its end.
C5_EveryApprovalTimesOut ==
    /\ [][(consumer = "silent" /\ LeavesWait) =>
            /\ slot = "waiting" /\ waited = APPROVAL_TIMEOUT_SECS
            /\ DeniedWith(DeniedTimeoutText(CurTool))]_vars
    /\ (consumer = "silent" => <>(pc = "done"))

\* C5 amended: with a consumer that receives the approval requests and
\* never answers, every wait for a reply ends in a denial that leaves the
\* tool unexecuted: the timeout denial once 60 s have passed while the
\* reply slot is kept, or the no-response denial as soon as the consumer
\* drops the reply slot; the run never waits for ever and reaches its end.
C5_UnansweredApprovalsDenied ==
    /\ [][(consumer = "silent" /\ LeavesWait) =>
            \/ /\ slot = "waiting" /\ waited = APPROVAL_TIMEOUT_SECS
               /\ DeniedWith(DeniedTimeoutText(CurTool))
            \/ /\ slot = "dropped"
               /\ DeniedWith(DeniedNoResponseText(CurTool))]_vars
    /\ (consumer = "silent" => <>(pc = "done"))

\* C5 witness: the run of a consumer that never answers has ended after a
\* request was denied by the timeout
C5_Witness ==
    /\ consumer = "silent"
    /\ pc = "done"
    /\ \E i \in Handled : ResultText(i) = DeniedTimeoutText(tool_calls[i].name)

\* C6: the run-completed event is never lost: when the run has ended and a
\* consumer that keeps reading has emptied the channel, it has received
\* exactly one run-completed event.
C6_RunCompletedDelivered ==
    (pc = "done" /\ consumer \in {"silent", "responsive"} /\ chan = <<>>) =>
        rcReceived = 1

RanReviews == Count(stepLog, Steps[ReviewIdx].name)

\* C7: a pipeline with a review step never starts the review step more
\* than max_review_iterations times; when every review was judged not
\* approved and no step failed, the run ends after exactly
\* max_review_iterations reviews (0 included) with the Ok result whose
\* transcript says NEEDS_MANUAL_REVIEW.
C7_ReviewLoopTerminates ==
    ReviewIdx # 0 =>
        /\ RanReviews <= pipeline.max_review_iterations
        /\ (Finished /\ outcome.status # "err"
                /\ \A i \in 1..Len(verdicts) : ~verdicts[i]) =>
              /\ Len(verdicts) = pipeline.max_review_iterations
              /\ RanReviews = pipeline.max_review_iterations
              /\ outcome = [status |-> "ok", out |-> NeedsManualReviewOutput]
              /\ outcome.out.status = "NEEDS_MANUAL_REVIEW"

\* C7 witness: two reviews, both not approved, then the soft outcome
C7_Witness ==
    /\ pc = "done"
    /\ pipeline.max_review_iterations = 2
    /\ verdicts = <<FALSE, FALSE>>
    /\ outcome.status = "ok"
    /\ outcome.out.status = "NEEDS_MANUAL_REVIEW"

RECURSIVE Repeat(_, _)
Repeat(seq, n) == IF n <= 0 THEN <<>> ELSE seq \o Repeat(seq, n - 1)
PreNames == [i \in 1..steps_before_review |-> Steps[i].name]
RECURSIVE FixFrom(_)
FixFrom(i) ==
    IF i > steps_before_review THEN <<>>
    ELSE IF Steps[i].phase \in {"Implementing", "Testing"}
         THEN <<Steps[i].name>> \o FixFrom(i + 1)
         ELSE FixFrom(i + 1)
ReviewName == Steps[ReviewIdx].name
\* the steps of a run with n reviews
Rounds(n) ==
    PreNames \o <<ReviewName>> \o Repeat(FixFrom(1) \o <<ReviewName>>, n - 1)

\* C8: a non-approved review with review iterations left stores its text
\* under review_feedback; the steps a run executes are the pre-review
\* steps, the review, and then, per further review, the pre-review steps
\* tagged Implementing or Testing in pipeline order followed by the review;
\* the default pipeline with verdicts NEEDS_WORK, APPROVED executes
\* planner, coder, tester, reviewer, coder, tester, reviewer.
C8_RerunFixSteps ==
    /\ [][(stage = "review" /\ stage' = "rerun") =>
            /\ "review_feedback" \in DOMAIN context'
            /\ context'["review_feedback"] \in Outputs
            /\ ~is_review_approved(context'["review_feedback"])
            /\ \A n \in DOMAIN context : context'[n] = context[n] \/ n = "review_feedback"]_vars
    /\ [](ReviewIdx # 0 =>
            /\ IsPrefix(stepLog, Rounds(pipeline.max_review_iterations))
            /\ (Finished /\ outcome.status = "ok" /\ verdicts # <<>>) =>
                    stepLog = Rounds(Len(verdicts))
            /\ \A i \in 1..Len(stepLog) :
                    i > steps_before_review =>
                        \A j \in 1..steps_before_review :
                            Steps[j].name = stepLog[i] => Steps[j].phase # "Planning"
            /\ (Finished /\ verdicts = <<FALSE, TRUE>>
                    /\ PreNames = <<"planner", "coder", "tester">>) =>
                    stepLog = <<"planner", "coder", "tester", "reviewer",
                                "coder", "tester", "reviewer">>)

\* C8 witness: the default pipeline, rejected once and then approved
C8_Witness ==
    /\ pc = "done"
    /\ verdicts = <<FALSE, TRUE>>
    /\ "review_feedback" \in DOMAIN context
    /\ stepLog = <<"planner", "coder", "tester", "reviewer",
                   "coder", "tester", "reviewer">>

StepNames == {Steps[i].name : i \in 1..Len(Steps)}

\* C9: when a review is judged approved the run executes no further step
\* and its result is the SUCCESS transcript made of the original task and
\* one section per step, holding that step's latest output, the approving
\* review included, and nothing else.
C9_SuccessTranscript ==
    (Finished /\ verdicts # <<>> /\ verdicts[Len(verdicts)]) =>
        /\ stepLog[Len(stepLog)] = ReviewName
        /\ outcome.status = "ok"
        /\ outcome.out.status = "SUCCESS"
        /\ outcome.out.task = "task"
        /\ outcome.out.sections =
              {<<capitalize(n), context[n]>> : n \in StepNames \cap DOMAIN context}
        /\ ReviewName \in DOMAIN context
        /\ is_review_approved(context[ReviewName])

\* C10: when every response of a step requested tools until the budget
\* was used up, the step has made exactly max_iterations model calls and
\* the run has ended with the iteration-exceeded error naming the step
\* and the budget; a step never makes more than max_iterations calls, and
\* the exhausted budget ends the run without another message or step.
C10_IterationBudget ==
    /\ [](cur # 0 =>
            /\ llm_calls <= Steps[cur].max_iterations
            /\ (iteration = Steps[cur].max_iterations /\ pc # "loop_head") =>
                  /\ llm_calls = Steps[cur].max_iterations
                  /\ Finished
                  /\ outcome.status = "err"
                  /\ outcome.out = PlainOutput(
                        [lines |-> <<IterationExceededText(
                                        Steps[cur].name, Steps[cur].max_iterations)>>,
                         tag |-> <<"error", 0>>]))
    /\ [][(pc = "loop_head" /\ pc' # "loop_head"
                /\ iteration = Steps[cur].max_iterations) =>
            /\ pc' = "run_end"
            /\ outcome'.status = "err"
            /\ messages' = messages
            /\ stepLog' = stepLog]_vars

\* C10 witness: a step with a budget of two has failed after two calls
C10_Witness ==
    /\ pc = "done"
    /\ cur # 0
    /\ iteration = 2
    /\ llm_calls = 2
    /\ outcome.status = "err"
    /\ \E i \in Handled : executed[i]

\* the run task takes a step (every such step changes pc, k or iteration)
RunStep == <<pc, k, iteration>>' # <<pc, k, iteration>>
\* the run is handling call k of the current response
InCall == pc \in {"call_begin", "approval_send", "approval_wait", "exec"}

\* C11: a response without tool calls ends the step successfully with that
\* response's text as the step's output, within the budget; the step makes
\* no model call and executes no tool afterwards; a single-step pipeline
\* whose response is tool-free returns that text unchanged (after a first
\* tool-free response: one model call, no tool executed).
C11_ToolFreeResponseReturned ==
    /\ [][(pc = "llm" /\ pc' \in {"loop_head", "run_end"}
                /\ outcome'.status # "err") =>
            /\ iteration < Steps[cur].max_iterations
            /\ stage \in {"pre", "rerun"} =>
                    /\ Steps[cur].name \in DOMAIN context'
                    /\ context'[Steps[cur].name] \in Outputs
            /\ tool_calls' = <<>> /\ tool_results' = <<>>
            /\ pc' = "loop_head" => (llm_calls' = 0 /\ iteration' = 0
                                      /\ stepLog' # stepLog)
            /\ Len(Steps) = 1 =>
                    /\ pc' = "run_end"
                    /\ outcome'.status = "ok"
                    /\ \E out \in Outputs : outcome'.out = PlainOutput(out)
                    /\ llm_calls' = iteration + 1]_vars
    /\ [](InCall => llm_calls = iteration + 1)
    /\ []((Finished /\ Len(Steps) = 1 /\ outcome.status = "ok") =>
            /\ llm_calls = iteration + 1
            /\ outcome.out = PlainOutput([lines |-> <<<<"done">>>>,
                                          tag |-> <<Steps[1].name, 1>>]))

\* C11 witness: a single-step run whose first response was tool-free
C11_Witness ==
    /\ pc = "done"
    /\ Len(Steps) = 1
    /\ outcome.status = "ok"
    /\ llm_calls = 1
    /\ iteration = 0
    /\ outcome.out.sections = {<<"", [lines |-> <<<<"done">>>>, tag |-> <<"coder", 1>>]>>}

\* C12: the run handles one tool call at a time, in the order requested:
\* while call k is being approved or executed exactly the results of the
\* calls 1..k-1 have been obtained, in that order; a step starts only when
\* no call of an earlier step is pending.
C12_OneToolAtATime ==
    /\ [](InCall =>
            /\ k \in 1..Len(tool_calls)
            /\ Len(tool_results) = k - 1
            /\ Len(executed) = k - 1)
    /\ [](\A i \in Handled : tool_results[i][1] = tool_calls[i].id)
    /\ [][tool_results' # tool_results =>
            \/ tool_results' = <<>>
            \/ /\ InCall
               /\ Len(tool_results') = k
               /\ SubSeq(tool_results', 1, k - 1) = tool_results
               /\ tool_results'[k][1] = tool_calls[k].id
               /\ (k' = k + 1 /\ pc' = "call_begin") \/ (k = Len(tool_calls) /\ pc' = "loop_head")]_vars
    /\ [][stepLog' # stepLog =>
            /\ pc \in {"start", "llm"}
            /\ Len(stepLog') = Len(stepLog) + 1
            /\ tool_calls' = <<>> /\ tool_results' = <<>>]_vars

\* C12 witness: the second call of a response is being executed after the
\* first call's execution has produced its result
C12_Witness ==
    /\ pc = "exec"
    /\ k = 2
    /\ Len(tool_results) = 1
    /\ executed = <<TRUE>>

\* C13: no tool outcome ends a step: an unregistered tool, a tool whose
\* execution fails and an approval denial each become the text result of
\* the call (starting with "Error:" for the first two); after the last
\* call of a response the results are appended to the conversation and
\* the loop goes to its next iteration; a run whose model asks for an
\* unregistered tool and then answers without tools ends successfully.
C13_ToolOutcomesAreText ==
    /\ [][(InCall /\ RunStep) =>
            /\ outcome' = outcome
            /\ pc' \in {"call_begin", "approval_send", "approval_wait", "exec",
                        "loop_head"}
            /\ pc' = "loop_head" =>
                    /\ iteration' = iteration + 1
                    /\ Len(tool_results') = Len(tool_calls)
                    /\ messages' = messages
                          \o <<AssistantWithTools(response, tool_calls)>>
                          \o [i \in 1..Len(tool_calls) |->
                                ToolResultMsg(tool_calls[i].id, tool_results'[i][2])]
            /\ (pc = "exec" /\ CurTool \notin RegisteredTools) =>
                    /\ tool_results' = Append(tool_results,
                            <<tool_calls[k].id, <<"Error: ", "unknown tool '", CurTool, "'">>>>)
                    /\ executed' = Append(executed, FALSE)
            /\ (pc = "exec" /\ CurTool \in RegisteredTools) =>
                    /\ Len(tool_results') = k
                    /\ tool_results'[k][2] \in
                          {<<"output of ", CurTool>>,
                           <<"Error: ", "execution failed", CurTool>>}]_vars
    /\ [](\A i \in Handled :
            (ResultText(i)[1] = "Error: ") <=>
                (ResultText(i) \in {UnknownToolText(tool_calls[i].name),
                                    ToolErrorText(tool_calls[i].name)}))

\* C13 witness: the model asked for an unregistered tool, then answered
\* without tools, and the run ended successfully
C13_Witness ==
    /\ pc = "done"
    /\ outcome.status = "ok"
    /\ Len(Steps) = 1
    /\ Len(messages) = 3
    /\ messages[3].tool_result.result = <<"Error: ", "unknown tool '", "bogus", "'">>

\* the modes, as the configuration documents them
ModeAsks(mode, tool) ==
    \/ mode = "ApproveAll"
    \/ mode = "ApproveDangerous" /\ tool \in {"shell", "write_file", "edit_file"}
    \/ mode = "Custom" /\ ~CustomAutoApproves(tool)

\* C14: for a call that passed the allow-list, the gate goes on to ask
\* exactly when the tool is not in the always-approved set and the mode
\* asks for it; the request is put on the channel exactly when the
\* receiver is still there; in every other case the call goes to execution
\* without a request.
C14_AskExactlyWhenNeeded ==
    /\ [][(pc = "call_begin" /\ RunStep /\ AllowedByFilter(CurAllowed, CurTool)) =>
            /\ (pc' = "approval_send") <=>
                    (CurTool \notin always_approved /\ ModeAsks(approval_mode, CurTool))
            /\ pc' # "approval_send" =>
                    /\ pc' = "exec"
                    /\ ~askedNow'
                    /\ \A i \in 1..Len(chan') : chan'[i].type = "ToolApprovalRequired" =>
                            i <= Len(chan) /\ chan'[i] = chan[i]]_vars
    /\ [][(pc = "approval_send" /\ RunStep) =>
            /\ askedNow' <=> ~closed
            /\ askedNow' => (pc' = "approval_wait"
                              /\ chan' = Append(chan, ApprovalEv(CurTool)))
            /\ ~askedNow' => (pc' = "exec" /\ chan' = chan)]_vars

\* C14 witness: under ApproveDangerous a call to read_file goes to
\* execution unasked, in a run that has asked for shell before
C14_Witness ==
    /\ approval_mode = "ApproveDangerous"
    /\ pc = "exec"
    /\ CurTool = "read_file"
    /\ ~askedNow
    /\ always_approved = {}
    /\ k = 2
    /\ ResultText(1) = DeniedByUserText("shell", DenyReason)

\* an event without the state of its reply slot
Strip(q) == [i \in 1..Len(q) |-> [type |-> q[i].type, name |-> q[i].name]]
\* where the run task emits events with EventSender::emit
EmitPoints == {"start", "loop_head", "sleep", "llm", "call_begin", "exec", "run_end"}

\* C15: emitting telemetry never blocks the run: at every point where the
\* run emits with EventSender::emit it can take its step whatever the
\* channel holds; a step of the run leaves the queued events in place and
\* in order, adds nothing to a full channel and nothing to a closed one.
C15_EmitNeverBlocks ==
    /\ [](pc \in EmitPoints => ENABLED RunTask)
    /\ [][RunStep =>
            /\ IsPrefix(Strip(chan), Strip(chan'))
            /\ (Len(chan) >= ChanCap /\ pc # "approval_send") =>
                    Strip(chan') = Strip(chan)
            /\ Len(chan') <= ChanCap
            /\ closed => chan' = chan]_vars

\* C15 witness: the run has ended although the channel was full, nothing
\* was received, and the first events are still queued in order
C15_Witness ==
    /\ pc = "done"
    /\ consumer = "never"
    /\ Len(chan) = ChanCap
    /\ chan[1].type = "PhaseChanged"
    /\ chan[2].type = "AgentStarted"
    /\ llm_calls >= 1

\* a persisted run has returned to its caller
SessionRunEnded == session.id # 0 /\ pc \in {"run_end", "done", "L_done"}
\* the last save the run attempted
LastSave == saves[Len(saves)]

\* C16: when the pipeline of a persisted run has failed, the session is
\* Failed and carries the error text, a save of the Failed session was
\* attempted, and the caller receives that pipeline failure even if the save
\* failed.
C16_PipelineFailureReported ==
    SessionRunEnded =>
        /\ session.status = "Failed" =>
              /\ saves # <<>>
              /\ LastSave.status = "Failed"
              /\ outcome.status = "err"
              /\ OutcomeKind = "error"
              /\ session.error = <<OutcomeError>>
        /\ (outcome.status = "err" /\ OutcomeKind = "error") =>
              session.status = "Failed"

\* a resume call has loaded a stored session and goes on to run it
ResumeProceeds ==
    /\ pc \in {"s_idle", "Ls_idle"}
    /\ pc' \in {"sess_begin", "L_sess_begin"}
    /\ session'.id \in DOMAIN store
\* a resume call returns the error of a session that cannot be resumed
ResumeRefused ==
    /\ pc \in {"s_idle", "Ls_idle"}
    /\ pc' \in {"returned_err", "L_returned_err"}
    /\ outcome'.status = "err"
    /\ OutcomeError'[1] = "session cannot be resumed (status: "

\* C17: resume goes on to run a stored session only when its status is
\* Pending, InProgress or Interrupted; a refused resume leaves the stored
\* sessions as they were, saves nothing, emits nothing, makes no model call,
\* and no run follows it.
C17_ResumeOnlyResumable ==
    /\ [][ResumeProceeds =>
            /\ store[session'.id].status \in {"Pending", "InProgress", "Interrupted"}
            /\ session' = SessionFromJson(store[session'.id])]_vars
    /\ [][ResumeRefused =>
            /\ \E id \in DOMAIN store :
                  /\ store[id].status \in {"Completed", "Failed"}
                  /\ OutcomeError'[2] = store[id].status
            /\ store' = store
            /\ saves' = saves
            /\ chan' = chan
            /\ session' = session
            /\ llm_calls' = llm_calls]_vars
    /\ [](pc \in {"returned_err", "L_returned_err"} =>
            /\ ~ENABLED SessionNext
            /\ llm_calls = 0
            /\ saves = <<>>
            /\ stepLog = <<>>)

\* C17 witness: the resume of a Failed session was refused, the stored
\* session is as it was and no model call was made
C17_Witness ==
    /\ pc = "returned_err"
    /\ outcome.status = "err"
    /\ OutcomeError = <<"session cannot be resumed (status: ", "Failed", ")">>
    /\ store[1].status = "Failed"
    /\ store[1].error # <<>>
    /\ llm_calls = 0

\* the pipeline of the persisted run has started
PipelineStarted == stepLog # <<>> \/ llm_calls > 0

\* C18: in a persisted run the first save, with status InProgress and
\* phase Planning, precedes the pipeline and its model calls; a run that
\* reports success has saved exactly twice, the second time with status
\* Completed and phase Completed, and the storage holds that session.
C18_SavedBeforeAndAfter ==
    /\ (session.id # 0 /\ PipelineStarted) =>
          /\ saves # <<>>
          /\ saves[1] = [id |-> session.id, status |-> "InProgress",
                          phase |-> "Planning", ok |-> TRUE]
          /\ session.id \in DOMAIN store
    /\ (SessionRunEnded /\ outcome.status = "ok") =>
          /\ saves = <<[id |-> session.id, status |-> "InProgress",
                         phase |-> "Planning", ok |-> TRUE],
                        [id |-> session.id, status |-> "Completed",
                         phase |-> "Completed", ok |-> TRUE]>>
          /\ store[session.id].status = "Completed"
          /\ store[session.id].phase = "Completed"

\* C18 witness: a persisted run of the whole pipeline has reported success
\* after its two saves
C18_Witness ==
    /\ pc = "done"
    /\ session.id # 0
    /\ outcome.status = "ok"
    /\ Len(stepLog) >= 4
    /\ Len(saves) = 2
    /\ store[session.id].status = "Completed"
    /\ ~tx_alive

\* the run task of the new engine is inside a step of the pipeline
ExecutingStep == pc \in {"loop_head", "sleep", "llm", "call_begin", "exec"}
\* the pipeline of the persisted run has returned Ok
PipelineSucceeded ==
    /\ SessionRunEnded
    /\ saves # <<>>
    /\ LastSave.status = "Completed"

\* C19: while a persisted run executes a step, the session's phase is the
\* phase the step is tagged with; the session's phase is Completed only
\* once the pipeline has succeeded.
C19_PhaseMirrorsProgress ==
    /\ (session.id # 0 /\ ExecutingStep) => session.phase = Steps[cur].phase
    /\ (session.id # 0 /\ pc # "sess_begin" /\ session.phase = "Completed") =>
          PipelineSucceeded

\* import_session has stored the session it made of the exported document
ImportStep == imported = 0 /\ imported' # 0
\* a resume of the imported session that goes on to run it
ResumeImported == SessResume /\ pc' = "sess_begin" /\ session'.id = imported

\* C20: the session import_session stores for a document export_session
\* made of a stored session, whatever its status, has status Interrupted, an
\* id that no stored session has and that differs from the original's, and
\* the original's messages and task; the original is left as it was, and a
\* resume of the imported session is accepted.
C20_ExportImportRoundTrip ==
    /\ [][ImportStep =>
            LET orig == SessionFromJson(store[portable.original_id])
                new == SessionFromJson(store'[imported'])
            IN  /\ new.id = imported'
                /\ new.status = "Interrupted"
                /\ imported' \notin DOMAIN store
                /\ imported' # orig.id
                /\ new.messages = orig.messages
                /\ new.task = orig.task
                /\ store'[orig.id] = store[orig.id]]_vars
    /\ []((pc = "s_idle" /\ imported # 0) => ENABLED ResumeImported)

\* C20 witness: a Completed session with a conversation was exported and
\* imported, and the imported session, with the same conversation and task,
\* has been resumed
C20_Witness ==
    /\ imported # 0
    /\ session.id = imported
    /\ pc = "start"
    /\ imported # portable.original_id
    /\ store[portable.original_id].status = "Completed"
    /\ portable.status = "Completed"
    /\ session.messages = StoredTranscript
    /\ session.task = "fix the bug"

\* C24: when the first save of a persisted run fails, no step of the
\* pipeline is started, no model call is made and the run ends with a
\* storage error; when the save after a successful pipeline fails, the
\* run ends with a storage error and not with the pipeline's output.
C24_HappyPathSaveFailureFatal ==
    /\ (saves # <<>> /\ ~saves[1].ok) =>
          /\ pc \in {"run_end", "done", "L_done"}
          /\ Len(saves) = 1
          /\ stepLog = <<>>
          /\ llm_calls = 0
          /\ outcome.status = "err"
          /\ OutcomeKind = "storage"
    /\ (Len(saves) = 2 /\ LastSave.status = "Completed" /\ ~LastSave.ok) =>
          /\ pc \in {"run_end", "done", "L_done"}
          /\ outcome.status = "err"
          /\ OutcomeKind = "storage"
          /\ store[session.id].status = "InProgress"

\* C24 witness: the whole pipeline succeeded, the save of the Completed
\* session failed, and the run has ended with the storage error
C24_Witness ==
    /\ pc = "done"
    /\ Len(stepLog) >= 4
    /\ Len(saves) = 2
    /\ LastSave.status = "Completed"
    /\ ~LastSave.ok
    /\ outcome.status = "err"

\* the names of the pipeline's steps, in list order
ListedNames == [i \in 1..Len(Steps) |-> Steps[i].name]
\* the text the step `name` returned when it ran for the n-th time
StepOutput(name, n) == [lines |-> <<<<"done">>>>, tag |-> <<name, n>>]

ConversationGrows == messages' # messages /\ stepLog' = stepLog

\* C27: when the last call of a response that requests tools has been
\* handled, the conversation grows by the assistant message with all the
\* calls followed by one tool-result message per call, in the order of the
\* calls and with their ids; the conversation changes in no other way within
\* a step, and every tool-result message in it carries an id that an earlier
\* assistant message of the conversation issued.
C27_TranscriptPairsCallsAndResults ==
    /\ [][ConversationGrows =>
            LET n == Len(tool_calls)
                base == Len(messages)
            IN  /\ InCall /\ k = n /\ n >= 1
                /\ Len(messages') = base + 1 + n
                /\ SubSeq(messages', 1, base) = messages
                /\ messages'[base + 1].role = "assistant"
                /\ messages'[base + 1].tool_calls = tool_calls
                /\ messages'[base + 1].content = response
                /\ \A i \in 1..n :
                      /\ messages'[base + 1 + i].role = "tool"
                      /\ messages'[base + 1 + i].tool_calls = <<>>
                      /\ messages'[base + 1 + i].tool_result.tool_call_id = tool_calls[i].id
                      /\ messages'[base + 1 + i].tool_result.result = tool_results'[i][2]]_vars
    /\ [][(InCall /\ pc' = "loop_head") => ConversationGrows]_vars
    /\ [](\A i \in 1..Len(messages) :
            messages[i].role = "tool" =>
                \E j \in 1..(i - 1) :
                    /\ messages[j].role = "assistant"
                    /\ \E c \in 1..Len(messages[j].tool_calls) :
                          messages[j].tool_calls[c].id = messages[i].tool_result.tool_call_id)

\* C27 witness: a response with two calls was handled, and the model is
\* called again with a conversation that ends with the assistant message
\* and the two results
C27_Witness ==
    /\ pc = "llm"
    /\ Len(messages) = 4
    /\ messages[2].role = "assistant"
    /\ Len(messages[2].tool_calls) = 2
    /\ messages[3].tool_result.tool_call_id = messages[2].tool_calls[1].id
    /\ messages[4].tool_result.tool_call_id = messages[2].tool_calls[2].id
    /\ messages[3].tool_result.tool_call_id # messages[4].tool_result.tool_call_id

\* property helpers for the path validators
HasParentDir(path) == \E i \in 1..Len(path) : path[i] = ".."
TraversalError(r) == ~r.ok /\ r.value = <<"path traversal detected">>
\* the canonical paths of CanonicalPaths that lie in a sensitive location
SensitiveHere(canon, home) ==
    \/ canon \in {Home \o <<<<"proj">>, <<".env">>>>,
                  Home \o <<<<"proj", "ect">>, <<".env", ".", "local">>>>,
                  Home \o <<<<"proj">>, <<".git">>, <<"config">>>>,
                  <<<<"etc">>, <<"passwd">>>>}
    \/ /\ home = Home
       /\ canon \in {Home \o <<<<".ssh">>, <<"id_rsa">>>>,
                     Home \o <<<<".config">>, <<"gh">>>>}

\* C21: validate_path denies, before any filesystem access and whatever the
\* policy says, every input path that has a ".." component, and does not
\* reject as traversal a path whose file name merely contains two dots.
C21_TraversalOnlyForParentDir ==
    pc \in {"returned", "legacy_returned"} =>
        /\ HasParentDir(arg.path) => TraversalError(ret) /\ ~ret.fs
        /\ ~HasParentDir(arg.path) => ~TraversalError(ret)

\* C22: for an input without traversal that resolves to p, validate_path
\* approves p when p starts with an allow_paths entry; otherwise it denies p
\* when p starts with a deny_paths entry or lies in a sensitive location,
\* and approves anything else.
C22_AllowOverridesDeny ==
    (pc = "returned" /\ ~HasParentDir(arg.path) /\ arg.canon # Unresolvable) =>
        LET p == to_string_lossy(arg.canon)
            allowed == \E a \in arg.policy.allow_paths : IsPrefix(a, p)
            denied == \E d \in arg.policy.deny_paths : IsPrefix(d, p)
        IN  /\ ret.ok <=> (allowed \/ (~denied /\ ~SensitiveHere(arg.canon, arg.home)))
            /\ ret.ok => ret.value = arg.canon

C22_Witness ==
    /\ pc = "returned"
    /\ arg.canon = Home \o <<<<"proj">>, <<".env">>>>
    /\ to_string_lossy(Home) \in arg.policy.deny_paths
    /\ to_string_lossy(Home \o <<<<"proj">>>>) \in arg.policy.allow_paths
    /\ ret.ok

\* property helpers for the command validator
ContainsIgnoringCase(command, part) ==
    Contains(to_lowercase(command), to_lowercase(part))
\* the credential and system locations: the listed paths and .env files
SensitiveLocations == sensitive_paths \cup {<<".env">>}
ReadsFrom(command, location) ==
    /\ Contains(command, location)
    /\ \/ \E verb \in read_commands : Contains(command, verb)
       \/ Contains(command, <<"<", " ">> \o location)
       \/ Contains(command, <<"<">> \o location)

\* C23: validate_command denies every command that contains, ignoring case,
\* a deny_commands entry or a fixed destructive pattern, and every command
\* that reads a credential or system location (the location together with a
\* file-reading verb or an input redirect from it); it approves every other
\* command.
C23_CommandsDeniedOrApproved ==
    pc = "command_returned" =>
        (~ret.ok <=>
            \/ \E d \in arg.policy.deny_commands : ContainsIgnoringCase(arg.command, d)
            \/ \E p \in dangerous_patterns : ContainsIgnoringCase(arg.command, p)
            \/ \E l \in SensitiveLocations : ReadsFrom(arg.command, l))

\* property helpers for the review verdict
IsMarker(line, word) == to_lowercase(Trim(line)) = <<"verdict:", " ", word>>
MarkerLines(lines) ==
    {i \in 1..Len(lines) : IsMarker(lines[i], "approved") \/ IsMarker(lines[i], "needs_work")}
MentionsWord(lines, word) ==
    \E i \in 1..Len(lines) : \E j \in 1..Len(lines[i]) :
        to_lowercase(lines[i])[j] = word
ExpectedVerdict(lines) ==
    IF MarkerLines(lines) # {}
    THEN LET first == CHOOSE i \in MarkerLines(lines) : \A j \in MarkerLines(lines) : i <= j
         IN  IsMarker(lines[first], "approved")
    ELSE MentionsWord(lines, "approved") /\ ~MentionsWord(lines, "needs_work")

\* C29: the review verdict is decided by the first line that, trimmed and
\* ignoring case, reads exactly VERDICT: APPROVED or VERDICT: NEEDS_WORK;
\* only when no line is a marker is it the heuristic: approved iff the text
\* contains approved and does not contain needs_work, ignoring case.
C29_FirstMarkerDecides ==
    pc \in {"review_parsed", "legacy_review_parsed"} =>
        ret.approved = ExpectedVerdict(arg.lines)

\* property helpers for the store
Touches(log, id) ==
    {i \in 1..Len(log) : log[i].id = id /\ log[i].op \in {"save", "delete"}}
\* the session last saved under id and not deleted since, NoSession if none
LastSaved(log, id) ==
    IF Touches(log, id) = {} THEN NoSession
    ELSE LET last == CHOOSE i \in Touches(log, id) : \A j \in Touches(log, id) : j <= i
         IN  IF log[last].op = "save" THEN log[last].s ELSE NoSession
LastOp == arg[Len(arg)]

\* C26: after any sequence of save, load and delete operations on one
\* store, load(id) returns the session most recently saved under id, and
\* none when id was never saved or was deleted since its last save; the
\* listing has one entry per id that holds a session.
C26_LoadReturnsLastSaved ==
    (pc = "storage" /\ arg # <<>>) =>
        /\ LastOp.op = "load" => ret.ok /\ ret.value = LastSaved(arg, LastOp.id)
        /\ LastOp.op = "list" =>
               \A id \in StorageIds :
                   Cardinality({e \in ret.value : e.id = id})
                       = IF LastSaved(arg, id) = NoSession THEN 0 ELSE 1

C26_Witness ==
    /\ pc = "storage" /\ Len(arg) = 4
    /\ arg[1].op = "save" /\ arg[1].s = StoredSession("Pending", <<>>)
    /\ arg[2].op = "save" /\ arg[2].s = StoredSession("Completed", StoredTranscript)
    /\ arg[3].op = "save failed" /\ arg[3].id = 1
    /\ arg[4].op = "load" /\ arg[4].id = 1
    /\ ret.value = StoredSession("Completed", StoredTranscript)

\* property helpers for the streamed call
InStreamedCall == pc \in {"chat_stream", "forwarder_await"}
Produced == [i \in 1..stream.produced |-> Token(i)]
ForwarderStep == ForwarderRecv \/ ForwarderExit \/ ForwarderJoined
\* what is left to do once the provider has returned
Remaining ==
    Len(stream.tokens) + (IF stream.forwarder = "running" THEN 1 ELSE 0)
        + (IF pc = "forwarder_await" THEN 1 ELSE 0)

\* C28 as stated: when the streamed call returns, the forwarder has
\* terminated and every token the provider produced has been forwarded.
C28_EveryProducedTokenForwarded ==
    pc = "stream_returned" =>
        stream.forwarder = "finished" /\ stream.forwarded = Produced

\* C28: the forwarder runs only during one streamed call and is joined
\* before the call returns; once the provider's call has returned, with
\* success or with an error, the forwarder can always take its next step and
\* each step brings it closer to its end; when the call returns, every token
\* the token channel accepted has been forwarded, in order, so no trailing
\* token is lost.  Tokens offered while the token channel is full are
\* dropped.
C28_AcceptedTokensForwarded ==
    /\ [](pc \notin {"call_llm_streaming", "chat_stream", "forwarder_await", "stream_returned"}
            \/ pc = "call_llm_streaming"
            \/ /\ stream.forwarder = "running" => InStreamedCall
               /\ pc = "forwarder_await" => ENABLED ForwarderStep
               /\ pc = "stream_returned" =>
                      /\ stream.forwarder = "finished" /\ stream.tokens = <<>>
                      /\ stream.forwarded = stream.accepted
                      /\ stream.provider \in {"ok", "err"})
    /\ [][(pc = "forwarder_await" /\ ForwarderStep) => Remaining' < Remaining]_vars

C28_Witness ==
    /\ pc = "stream_returned"
    /\ stream.provider = "err"
    /\ stream.produced = 3
    /\ stream.forwarded = <<Token(1), Token(2)>>
    /\ Len(chan) = 2

\* property helpers for the comparison of the two engines
ReviewRound == <<"coder", "tester", "reviewer">>
\* the invocations of a run that makes all three reviews
FullSchedule == <<"planner">> \o ReviewRound \o ReviewRound \o ReviewRound
RunReturned == pc \in {"done", "L_done"}
OutcomeKindOf(o) ==
    IF o.status = "err" THEN "error"
    ELSE IF o.out.status = "SUCCESS" THEN "success"
    ELSE IF o.out.status = "NEEDS_MANUAL_REVIEW" THEN "needs manual review"
    ELSE "other"
\* the kind of outcome the review decisions made so far call for
KindFor(decisions) ==
    IF decisions # <<>> /\ decisions[Len(decisions)] THEN "success"
    ELSE IF Len(decisions) = 3 THEN "needs manual review"
    ELSE "error"

\* C30: for every sequence of review decisions and every point at which a
\* step fails, the default pipeline with 3 review iterations and
\* OrchestratorAgent::run invoke planner, coder, tester and reviewer in the
\* same order and the same number of times, and end in the same kind of
\* outcome: both follow the one schedule that the decisions determine.
C30_DefaultPipelineMatchesOrchestrator ==
    /\ IsPrefix(stepLog, FullSchedule)
    /\ Len(verdicts) <= 3
    /\ \A i \in 1..(Len(verdicts) - 1) : ~verdicts[i]
    /\ LET reviews == Cardinality({i \in 1..Len(stepLog) : stepLog[i] = "reviewer"})
       IN  Len(verdicts) \in {reviews - 1, reviews}
    /\ RunReturned =>
           LET n == Len(verdicts)
           IN  /\ OutcomeKindOf(outcome) = KindFor(verdicts)
               /\ OutcomeKindOf(outcome) # "error" => Len(stepLog) = 1 + 3 * n
               /\ OutcomeKindOf(outcome) = "error" =>
                      Len(stepLog) \in (IF n = 0 THEN 1 ELSE 2 + 3 * n)..(4 + 3 * n)

C30_Witness ==
    /\ pc = "L_done"
    /\ verdicts = <<FALSE, FALSE, FALSE>>
    /\ stepLog = FullSchedule
    /\ OutcomeKindOf(outcome) = "needs manual review"

\* property helpers for the retry wrapper
InRetry == pc \in {"retry_attempt", "retry_returned", "retry_panicked"}

\* C31: retry_with_backoff invokes the operation at most max_retries + 1
\* times, returns the first success without a further attempt, returns the
\* last attempt's error after exactly max_retries + 1 invocations when every
\* attempt fails, and waits min(base * 2^k, max_delay) before retry k + 1.
C31_BoundedAttempts ==
    InRetry =>
        /\ pc # "retry_panicked"
        /\ stream.calls <= arg.max_retries + 1
        /\ \A i \in 1..Len(stream.delays) :
               stream.delays[i] = Min(arg.base_delay * Pow2(i - 1), arg.max_delay)
        /\ pc = "retry_attempt" => Len(stream.delays) = stream.calls
        /\ (pc = "retry_returned" /\ ret.ok) =>
               ret.value = <<"result", stream.calls>> /\ Len(stream.delays) = stream.calls - 1
        /\ (pc = "retry_returned" /\ ~ret.ok) =>
               /\ stream.calls = arg.max_retries + 1
               /\ ret.value = stream.last_error /\ ret.value[2] = stream.calls
               /\ Len(stream.delays) = arg.max_retries

\* C32: when an approval is required and the consumer has already dropped
\* the receiver of the event channel, the gate approves the call without
\* anybody being asked, and the tool is looked up and executed; this holds in
\* every approval mode.
C32_ClosedChannelApproves ==
    /\ [][(pc = "approval_send" /\ closed /\ pc' # pc) =>
            /\ pc' = "exec"
            /\ ~askedNow' /\ slot' = slot /\ chan' = chan
            /\ always_approved' = always_approved]_vars
    /\ [][(pc = "exec" /\ closed /\ pc' # pc) =>
            executed' = Append(executed, RegistryGet(tool_calls[k].name) # None)]_vars

C32_Witness ==
    /\ pc = "exec"
    /\ closed
    /\ approval_mode = "ApproveAll"
    /\ ~askedNow
    /\ tool_calls[k].name \notin always_approved
    /\ slot = "none"

\* property helpers for the shared store
\* save j replaces, under the same id, the Completed record of save i
Overwrites(i, j) ==
    /\ i < j
    /\ ret[i].ok /\ ret[j].ok /\ ret[i].id = ret[j].id
    /\ ret[i].status = "Completed" /\ ret[j].status # "Completed"

\* C33 as stated: once an id has been saved as Completed, no later save
\* stores that id with a different status.
C33_CompletedNeverOverwritten ==
    pc = "shared_store" =>
        \A i, j \in 1..Len(ret) : ~Overwrites(i, j)

\* C33: Completed is terminal for every run that loads the session after it
\* was stored: resume refuses a session whose stored status is Completed,
\* and a save that replaces a Completed record by another status is made
\* only by a run that had loaded the session before that record was saved.
C33_CompletedTerminalForLaterRuns ==
    pc = "shared_store" =>
        /\ \A i, j \in 1..Len(ret) : Overwrites(i, j) => ret[j].loaded < i
        /\ \A r \in SharedRuns :
               (arg[r].at = "begin" /\ arg[r].session.id \in DOMAIN store
                  /\ arg[r].loaded = Len(ret))
                   => store[arg[r].session.id].status # "Completed"
        /\ \A id \in DOMAIN store :
               (Load(id).status = "Completed" /\ \A r \in SharedRuns : arg[r].at = "idle")
                   => ~ENABLED (\E r \in SharedRuns : SharedResume(r) /\ arg'[r].at = "begin")

C33_Witness ==
    /\ pc = "shared_store"
    /\ Len(ret) = 4
    /\ Overwrites(3, 4)
    /\ ret[3].run # ret[4].run
    /\ ret[4].status = "Failed"

\* the gate points of execute_with_approval, before the tool is reached
AtGate == pc \in {"call_begin", "approval_send", "approval_wait"}
\* the events already queued, whether or not a reply slot is still awaited
Queued(q) == [i \in 1..Len(q) |-> [type |-> q[i].type, name |-> q[i].name]]
\* this step of the run queued an event of the given type
Queues(type) ==
    /\ Len(chan') = Len(chan) + 1
    /\ chan'[Len(chan')].type = type

\* C34: the checks of one tool call run in the order allow-list, approval,
\* execution: a call rejected by the allow-list makes no approval request
\* and emits neither ToolStarted nor ToolCompleted; a call denied at the
\* gate emits neither; every other call emits ToolStarted when it passes the
\* gate, before the tool is looked up and executed, and ToolCompleted after
\* it, once each.
C34_AllowListApprovalExecution ==
    /\ [][(pc = "call_begin" /\ pc' # pc
             /\ ~AllowedByFilter(Steps[cur].allowed_tools, tool_calls[k].name))
           => /\ pc' \notin {"approval_send", "approval_wait", "exec"}
              /\ chan' = chan /\ ~askedNow' /\ slot' = slot
              /\ executed' = Append(executed, FALSE)]_vars
    /\ [][(AtGate /\ pc' # pc /\ ~(pc' \in {"approval_send", "approval_wait", "exec"}))
           => /\ Queued(chan') = Queued(chan)
              /\ executed' = Append(executed, FALSE)]_vars
    /\ [][(AtGate /\ pc' = "exec")
           => /\ AllowedByFilter(Steps[cur].allowed_tools, tool_calls[k].name)
              /\ Queued(chan') = Queued(emit(chan, Ev("ToolStarted", tool_calls[k].name)))
              /\ executed' = executed /\ tool_results' = tool_results
              /\ k' = k]_vars
    /\ [][(pc = "exec" /\ pc' # pc)
           => /\ chan' = emit(chan, Ev("ToolCompleted", tool_calls[k].name))
              /\ Len(executed') = Len(executed) + 1
              /\ executed'[Len(executed')] = (RegistryGet(tool_calls[k].name) # None)
              /\ (k' = k + 1 /\ pc' = "call_begin") \/ pc' = "loop_head"]_vars
    /\ [][Queues("ToolStarted") => AtGate /\ pc' = "exec"]_vars
    /\ [][Queues("ToolCompleted") => pc = "exec" /\ pc' # "exec"]_vars
    /\ [][Queues("ToolApprovalRequired")
           => /\ pc = "approval_send" /\ pc' = "approval_wait"
              /\ AllowedByFilter(Steps[cur].allowed_tools, tool_calls[k].name)]_vars

\* C34 witness: an approved call has run: its ToolStarted and ToolCompleted
\* are queued in this order and nothing else is, and the call before it in
\* the same response was rejected by the allow-list without any event.
C34_Witness ==
    /\ pc = "loop_head" /\ k = 2
    /\ executed = <<FALSE, TRUE>>
    /\ Queued(chan) = <<[type |-> "ToolStarted", name |-> tool_calls[2].name],
                        [type |-> "ToolCompleted", name |-> tool_calls[2].name]>>
    /\ ~AllowedByFilter(Steps[cur].allowed_tools, tool_calls[1].name)

C36_CompletedHasNoError ==
    \A id \in DOMAIN store :
        Load(id).status = "Completed" => Load(id).error = <<>>

\* property helpers for custom pipelines
\* the position of the first review-flagged step of the list, 0 without one
FirstFlagged ==
    LET flagged == {i \in 1..Len(pipeline.steps) : pipeline.steps[i].is_review}
    IN  IF flagged = {} THEN 0
        ELSE CHOOSE i \in flagged : \A j \in flagged : i <= j
\* the names of the steps listed up to the first review-flagged step, and
\* of the steps listed after it
NamesUpToReview == {pipeline.steps[i].name : i \in 1..FirstFlagged}
NamesAfterReview ==
    {pipeline.steps[i].name : i \in (FirstFlagged + 1)..Len(pipeline.steps)}

\* C37: execute_pipeline executes only the steps listed before the first
\* review-flagged step and that review step itself: a step listed after it,
\* a second review-flagged step included, is never executed, and its
\* output is neither kept in the context nor part of the result.
C37_StepsAfterReviewNeverRun ==
    FirstFlagged # 0 =>
        /\ cur \in 0..FirstFlagged
        /\ stage = "review" => cur \in {0, FirstFlagged}
        /\ stage \in {"pre", "rerun"} => cur < FirstFlagged
        /\ \A i \in 1..Len(stepLog) : stepLog[i] \in NamesUpToReview
        /\ DOMAIN context \subseteq NamesUpToReview \cup {"review_feedback"}
        /\ \A n \in DOMAIN context : context[n].tag[1] \in NamesUpToReview
        /\ \A sec \in outcome.out.sections :
               /\ sec[1] \notin {capitalize(n) : n \in NamesAfterReview}
               /\ sec[2].tag[1] \notin NamesAfterReview

\* C37 witness: a run of the pipeline planner, reviewer, coder, auditor has
\* returned its success report after the planner and the reviewer ran.
C37_Witness ==
    /\ pc = "done"
    /\ Len(pipeline.steps) = 4 /\ FirstFlagged = 2
    /\ stepLog = <<"planner", "reviewer">>
    /\ outcome.status = "ok" /\ outcome.out.status = "SUCCESS"

\* C38 as stated: execute_pipeline returns for every pipeline that
\* Pipeline::custom and with_max_review_iterations can build, the empty
\* step list included: the run task never panics.
C38_NeverPanics == pc \notin {"panicked", "aborted"}

\* property helpers for the persisted run
\* the run is between its start and its last save
InPersistedRun == session.id # 0 /\ pc \notin {"s_idle", "Ls_idle"}
\* the fields of a stored record that a run leaves alone
Kept(record) == <<record.id, record.task, record.messages>>

StreamYieldsNone == ~closed /\ chan = <<>> /\ ~tx_alive
\* the consumer keeps calling next_event
ConsumerReads == consumer \in {"silent", "responsive"}

\* C40: once the run task has finished every event sender of the run has
\* been dropped, and none is dropped before: the stream yields none only
\* after the task finished, never while a step is being executed, and for
\* a consumer that reads events until the stream yields none the stream
\* does end, with the task finished and its result, Ok or Err, available
\* to wait().
C40_StreamEndsWithRun ==
    /\ [](pc = "done" <=> ~tx_alive)
    /\ [](StreamYieldsNone => (pc = "done" /\ outcome.status \in {"ok", "err"}))
    /\ ConsumerReads =>
           <>[](StreamYieldsNone /\ pc = "done" /\ outcome.status \in {"ok", "err"})

\* C40 witness: a reading consumer has received RunCompleted of a run that
\* asked it for an approval, and the stream has ended.
C40_Witness ==
    /\ ConsumerReads
    /\ StreamYieldsNone
    /\ pc = "done" /\ rcReceived = 1
    /\ answeredAlways # {}

====
